----------------------------- MODULE Population -----------------------------
(***************************************************************************)
(* The supervisor's books: the program registry with its reference counts  *)
(* (runtime/src/host/program_registry.h), the directory of logical ids     *)
(* (vm_identity.h), the VM instances (supervisor.h) and the slot records   *)
(* of PersistentRuntime (persistent.h), and what the lifecycle calls make  *)
(* of them when the retirement or the binding of a slot fails part way.    *)
(*                                                                         *)
(* One thread makes the calls, so each is one step.  The channel to the    *)
(* slot's warp is SupervisedSlot's; here a retirement ends in one of its   *)
(* outcomes.  STOPPED stands for HALTED and FAULTED too.  Ids count from 1 *)
(* here and from 0 in the code.                                            *)
(***************************************************************************)
EXTENDS Naturals, FiniteSets

CONSTANTS
  Capacity,     \* resident slots
  MaxPrograms,  \* bound: program ids given out
  MaxIds,       \* logical ids: 65536 in the code
  Failures      \* the points of failure explored

ASSUME PopulationAssumption ==
  /\ {Capacity, MaxPrograms, MaxIds} \subseteq Nat
  /\ Failures \subseteq {"timeout", "retire", "upload", "publish"}

SlotIds    == 1..Capacity
ProgramIds == 1..MaxPrograms
VmIds      == 1..MaxIds
None       == 0

VARIABLES
  launched, engine,                  \* launched_, population_engine_
  loaded, references, lastProgram,   \* ProgramRegistry
  routes, ids, lastId,               \* VmDirectory: id to slot, slot to id
  instance,                          \* Supervisor::instances_
  runtime,    \* PersistentRuntime: bound[slot], the ids it has routed, and
              \* (history) the slots of which a binding failed
  onDevice    \* d_programs_

registry  == <<loaded, references, lastProgram>>
directory == <<routes, ids, lastId>>
vars == <<launched, engine, registry, directory, instance, runtime, onDevice>>

Vacant    == [vm |-> None, program |-> None, lifecycle |-> "EMPTY"]
Unbound   == [vm |-> None, program |-> None]
NoRuntime == [bound |-> [s \in SlotIds |-> Unbound], routed |-> {}, stranded |-> {}]

NoRoutes == [v \in VmIds |-> None]
NoIds    == [s \in SlotIds |-> None]

Init ==
  /\ launched = FALSE /\ engine = "interpreted"
  /\ loaded = {} /\ references = [p \in ProgramIds |-> 0] /\ lastProgram = 0
  /\ routes = NoRoutes /\ ids = NoIds /\ lastId = 0
  /\ instance = [s \in SlotIds |-> Vacant]
  /\ runtime = NoRuntime /\ onDevice = {}

-----------------------------------------------------------------------------
(* Slot records: every outcome of a call, as [ok, next]                    *)

Failed(r) == [ok |-> FALSE, next |-> r]

\* Fault: the slot is given up before the copies that can fail.
UnbindEagerly(r, s) ==
  LET v == r.bound[s].vm
      given == [r EXCEPT !.bound[s] = Unbound, !.routed = @ \ {v}]
  IN  IF v = None
        THEN {Failed(r)}
        ELSE {[ok |-> TRUE, next |-> given]}
               \union {Failed(r)     : f \in Failures \intersect {"timeout"}}
               \union {Failed(given) : f \in Failures \intersect {"retire"}}

\* UnbindSlot: it withdraws the route from its table before the copies that
\* can fail, and gives up the slot after them.
UnbindOutcomes(r, s) ==
  LET v == r.bound[s].vm
      withdrawn == [r EXCEPT !.routed = @ \ {v}]
  IN  IF v = None
        THEN {Failed(r)}
        ELSE {[ok |-> TRUE, next |-> [withdrawn EXCEPT !.bound[s] = Unbound]]}
               \union {Failed(r)         : f \in Failures \intersect {"timeout"}}
               \union {Failed(withdrawn) : f \in Failures \intersect {"retire"}}

\* BindSlot: it occupies the slot before it publishes route and program, and
\* does not give it up when that publication fails.
BindOutcomes(r, s, v, p) ==
  LET failing  == [r EXCEPT !.stranded = @ \union {s}]
      Occupied(x) == [x EXCEPT !.bound[s] = [vm |-> v, program |-> p]]
  IN  IF r.bound[s].vm # None \/ p \notin loaded \intersect onDevice \/ v \in r.routed
        THEN {Failed(failing)}
        ELSE {[ok |-> TRUE, next |-> [Occupied(r) EXCEPT !.routed = @ \union {v}]]}
               \union {Failed(failing)  : f \in Failures \intersect {"upload"}}
               \union {Failed(Occupied(failing)) : f \in Failures \intersect {"publish"}}

\* UnbindSlot and, if it succeeds, BindSlot of the same id: ResetSlot and the
\* middle of VmSetProgram.
RebindOutcomes(s, p) ==
  UNION {IF u.ok THEN BindOutcomes(u.next, s, instance[s].vm, p) ELSE {u} :
           u \in UnbindOutcomes(runtime, s)}

-----------------------------------------------------------------------------
(* ProgramRegistry                                                         *)

Add ==
  /\ ~launched
  /\ lastProgram < MaxPrograms
  /\ lastProgram' = lastProgram + 1
  /\ loaded' = loaded \union {lastProgram'}
  /\ references' = [references EXCEPT ![lastProgram'] = 0]
  /\ UNCHANGED <<launched, engine, directory, instance, runtime, onDevice>>

Unload(p) ==
  /\ ~(launched /\ engine = "compiled")
  /\ p \in loaded /\ references[p] = 0
  /\ loaded' = loaded \ {p}
  /\ UNCHANGED <<launched, engine, references, lastProgram, directory, instance, runtime, onDevice>>

Retain(p)  == [references EXCEPT ![p] = @ + 1]
Release(p) == [references EXCEPT ![p] = @ - 1]

-----------------------------------------------------------------------------
(* Supervisor                                                              *)

\* Launch; a launch that fails leaves everything as a later one finds it.
Launch ==
  /\ ~launched /\ loaded # {}
  /\ launched' = TRUE
  /\ engine' \in {"interpreted", "compiled"}
  /\ routes' = NoRoutes /\ ids' = NoIds /\ lastId' = 0
  /\ instance' = [s \in SlotIds |-> Vacant]
  /\ runtime' = NoRuntime /\ onDevice' = loaded
  /\ UNCHANGED registry

Held == {s \in SlotIds : instance[s].lifecycle # "EMPTY"}

\* Directory lookup: the instance of an active id.
Find(v, s) == v \in VmIds /\ routes[v] = s /\ s \in Held

FirstVacant(s) == s \notin Held /\ \A t \in 1..(s - 1) : t \in Held

\* The id is taken from the directory first, and is lost if the slot cannot
\* be bound.
VmCreate(s, p) ==
  /\ launched /\ p \in loaded /\ FirstVacant(s)
  /\ ids[s] = None /\ lastId < MaxIds
  /\ lastId' = lastId + 1
  /\ \E b \in BindOutcomes(runtime, s, lastId', p) :
       /\ runtime' = b.next
       /\ IF b.ok
            THEN /\ routes' = [routes EXCEPT ![lastId'] = s]
                 /\ ids' = [ids EXCEPT ![s] = lastId']
                 /\ references' = Retain(p)
                 /\ instance' = [instance EXCEPT ![s] =
                      [vm |-> lastId', program |-> p, lifecycle |-> "READY"]]
            ELSE UNCHANGED <<routes, ids, references, instance>>
  /\ UNCHANGED <<launched, engine, loaded, lastProgram, onDevice>>

\* VmStart, VmStop, VmResume, or the VM stopping by itself.
VmMove(v, s) ==
  /\ Find(v, s)
  /\ \/ instance[s].lifecycle \in {"READY", "STOPPED"} /\ runtime.bound[s].vm # None
        /\ instance' = [instance EXCEPT ![s].lifecycle = "RUNNING"]
     \/ instance[s].lifecycle = "RUNNING"
        /\ instance' = [instance EXCEPT ![s].lifecycle = "STOPPED"]
  /\ UNCHANGED <<launched, engine, registry, directory, runtime, onDevice>>

\* ResetSlot binds the program of the slot's record, not of the instance.
VmReset(v, s) ==
  /\ Find(v, s) /\ instance[s].lifecycle = "STOPPED"
  /\ \E b \in RebindOutcomes(s, runtime.bound[s].program) :
       /\ runtime' = b.next
       /\ IF b.ok THEN instance' = [instance EXCEPT ![s].lifecycle = "READY"]
                  ELSE UNCHANGED instance
  /\ UNCHANGED <<launched, engine, registry, directory, onDevice>>

\* Fault: the reference to the new program is kept when the exchange fails.
SetProgramLeaking(v, s, p) ==
  /\ Find(v, s) /\ instance[s].lifecycle # "RUNNING"
  /\ p \in loaded /\ p # instance[s].program
  /\ \E b \in RebindOutcomes(s, p) :
       /\ runtime' = b.next
       /\ IF b.ok
            THEN /\ references' = [Retain(p) EXCEPT ![instance[s].program] = @ - 1]
                 /\ instance' = [instance EXCEPT ![s].program = p, ![s].lifecycle = "READY"]
            ELSE references' = Retain(p) /\ UNCHANGED instance
  /\ UNCHANGED <<launched, engine, loaded, lastProgram, directory, onDevice>>

\* The new program is retained around the exchange, and released again when
\* the exchange fails.
VmSetProgram(v, s, p) ==
  /\ Find(v, s) /\ instance[s].lifecycle # "RUNNING"
  /\ p \in loaded /\ p # instance[s].program
  /\ \E b \in RebindOutcomes(s, p) :
       /\ runtime' = b.next
       /\ IF b.ok
            THEN /\ references' = [Retain(p) EXCEPT ![instance[s].program] = @ - 1]
                 /\ instance' = [instance EXCEPT ![s].program = p, ![s].lifecycle = "READY"]
            ELSE UNCHANGED <<references, instance>>
  /\ UNCHANGED <<launched, engine, loaded, lastProgram, directory, onDevice>>

\* Fault: the reference is released before the retirement can fail.
DeleteReleasingFirst(v, s) ==
  /\ Find(v, s)
  /\ references' = Release(instance[s].program)
  /\ \E u \in UnbindOutcomes(runtime, s) :
       /\ runtime' = u.next
       /\ IF u.ok
            THEN /\ routes' = [routes EXCEPT ![v] = None]
                 /\ ids' = [ids EXCEPT ![s] = None]
                 /\ instance' = [instance EXCEPT ![s] = Vacant]
            ELSE UNCHANGED <<routes, ids, instance>>
  /\ UNCHANGED <<launched, engine, loaded, lastProgram, lastId, onDevice>>

\* Fault: the id of a deleted VM still finds its slot.
DeleteKeepingRoute(v, s) ==
  /\ Find(v, s)
  /\ \E u \in UnbindOutcomes(runtime, s) :
       /\ runtime' = u.next
       /\ IF u.ok
            THEN /\ ids' = [ids EXCEPT ![s] = None]
                 /\ references' = Release(instance[s].program)
                 /\ instance' = [instance EXCEPT ![s] = Vacant]
            ELSE UNCHANGED <<ids, references, instance>>
  /\ UNCHANGED <<launched, engine, loaded, lastProgram, routes, lastId, onDevice>>

VmDelete(v, s) ==
  /\ Find(v, s)
  /\ \E u \in UnbindOutcomes(runtime, s) :
       /\ runtime' = u.next
       /\ IF u.ok
            THEN /\ routes' = [routes EXCEPT ![v] = None]
                 /\ ids' = [ids EXCEPT ![s] = None]
                 /\ references' = Release(instance[s].program)
                 /\ instance' = [instance EXCEPT ![s] = Vacant]
            ELSE UNCHANGED <<routes, ids, references, instance>>
  /\ UNCHANGED <<launched, engine, loaded, lastProgram, lastId, onDevice>>

Shutdown ==
  /\ launched
  /\ launched' = FALSE /\ engine' = "interpreted"
  /\ runtime' = NoRuntime /\ onDevice' = {}
  /\ references' = [p \in ProgramIds |->
       references[p] - Cardinality({s \in Held : instance[s].program = p})]
  /\ instance' = [s \in SlotIds |-> Vacant]
  /\ routes' = NoRoutes /\ ids' = NoIds /\ lastId' = 0
  /\ UNCHANGED <<loaded, lastProgram>>

-----------------------------------------------------------------------------
Next ==
  \/ Add \/ Launch \/ Shutdown
  \/ \E p \in ProgramIds : Unload(p)
  \/ \E s \in SlotIds, p \in ProgramIds : VmCreate(s, p)
  \/ \E v \in VmIds, s \in SlotIds :
       \/ VmMove(v, s) \/ VmReset(v, s) \/ VmDelete(v, s)
       \/ \E p \in ProgramIds : VmSetProgram(v, s, p)

Spec == Init /\ [][Next]_vars

-----------------------------------------------------------------------------
(* Properties *)

\* The books and the records have their types; a count never leaves 0..Capacity.
TypeOK ==
  /\ launched \in BOOLEAN /\ engine \in {"interpreted", "compiled"}
  /\ loaded \subseteq ProgramIds /\ onDevice \subseteq ProgramIds
  /\ references \in [ProgramIds -> 0..Capacity] /\ lastProgram \in 0..MaxPrograms
  /\ routes \in [VmIds -> SlotIds \union {None}]
  /\ ids \in [SlotIds -> VmIds \union {None}] /\ lastId \in 0..MaxIds
  /\ \A s \in SlotIds :
       /\ instance[s].vm \in VmIds \union {None}
       /\ instance[s].program \in ProgramIds \union {None}
       /\ instance[s].lifecycle \in {"EMPTY", "READY", "RUNNING", "STOPPED"}
       /\ runtime.bound[s].vm \in VmIds \union {None}
  /\ runtime.routed \subseteq VmIds /\ runtime.stranded \subseteq SlotIds

\* A program's reference count is the number of VMs that are defined on it,
\* whatever fails; so none of those programs can be unloaded.
ReferencesAreExact ==
  /\ \A p \in ProgramIds :
       references[p] = Cardinality({s \in Held : instance[s].program = p})
  /\ \A s \in Held : instance[s].program \in loaded

\* The directory's two tables are inverse to each other and name exactly the
\* VMs there are, whatever fails: an id of a deleted VM finds nothing.
DirectoryIsExact ==
  /\ \A v \in VmIds, s \in SlotIds : routes[v] = s <=> ids[s] = v
  /\ \A s \in SlotIds : ids[s] = instance[s].vm /\ (s \in Held <=> ids[s] # None)

\* The runtime's slot records agree with the supervisor's instances, so that
\* every VM can be retired and every EMPTY slot bound, whatever retirement
\* fails where: only a binding that failed can have put them at odds.
RecordsAgree ==
  \A s \in SlotIds \ runtime.stranded :
    /\ runtime.bound[s].vm = instance[s].vm
    /\ runtime.bound[s].program = instance[s].program

\* The program a VM's slot is bound to is loaded: the registry rejects unload
\* while a VM still references the image (docs/architecture.md:108-109).
BoundProgramIsLoaded ==
  \A s \in Held : runtime.bound[s].vm # None => runtime.bound[s].program \in loaded
=============================================================================
