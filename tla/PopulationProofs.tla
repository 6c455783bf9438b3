-------------------------- MODULE PopulationProofs --------------------------
(***************************************************************************)
(* The supervisor's books are right for any number of slots, programs and  *)
(* ids and whatever fails: reference counts, directory and slot records.   *)
(* All follow from one inductive invariant, IInv.                          *)
(***************************************************************************)
EXTENDS Population, FiniteSetTheorems, TLAPS

USE PopulationAssumption

Lifecycles == {"EMPTY", "READY", "RUNNING", "STOPPED"}
Instances  == [vm : VmIds \union {None}, program : ProgramIds \union {None},
               lifecycle : Lifecycles]
Bindings   == [vm : VmIds \union {None}, program : ProgramIds \union {None}]
Runtimes   == [bound : [SlotIds -> Bindings], routed : SUBSET VmIds,
               stranded : SUBSET SlotIds]
Users(p)   == {s \in Held : instance[s].program = p}

\* TypeOK with the records whole, and counts not yet bounded.
Shape ==
  /\ launched \in BOOLEAN /\ engine \in {"interpreted", "compiled"}
  /\ loaded \subseteq ProgramIds /\ onDevice \subseteq ProgramIds
  /\ references \in [ProgramIds -> Nat] /\ lastProgram \in 0..MaxPrograms
  /\ routes \in [VmIds -> SlotIds \union {None}]
  /\ ids \in [SlotIds -> VmIds \union {None}] /\ lastId \in 0..MaxIds
  /\ instance \in [SlotIds -> Instances]
  /\ runtime \in Runtimes

\* VMs exist only while the population is launched; program ids and VM ids
\* that have not been given out are in no table.
GivenOut ==
  /\ ~launched => Held = {}
  /\ loaded \subseteq 1..lastProgram
  /\ \A v \in VmIds : routes[v] # None => v <= lastId

IInv == Shape /\ ReferencesAreExact /\ DirectoryIsExact /\ RecordsAgree /\ GivenOut
-----------------------------------------------------------------------------
(* The outcomes of the calls on a slot.                                    *)

\* A retirement frees the slot it is given, or fails and leaves it bound.
LEMMA UnbindResult ==
  ASSUME NEW r \in Runtimes, NEW s \in SlotIds, NEW u \in UnbindOutcomes(r, s)
  PROVE  /\ u.ok \in BOOLEAN /\ u.next \in Runtimes
         /\ u.next.stranded = r.stranded
         /\ u.ok  => u.next.bound = [r.bound EXCEPT ![s] = Unbound]
         /\ ~u.ok => u.next.bound = r.bound
<1> DEFINE v == r.bound[s].vm
           withdrawn == [r EXCEPT !.routed = @ \ {v}]
           freed == [withdrawn EXCEPT !.bound[s] = Unbound]
<1>1. /\ withdrawn \in Runtimes /\ withdrawn.bound = r.bound
      /\ withdrawn.stranded = r.stranded
  BY DEF Runtimes
<1>2. Unbound \in Bindings BY DEF Unbound, Bindings
<1>3. /\ freed \in Runtimes /\ freed.bound = [r.bound EXCEPT ![s] = Unbound]
      /\ freed.stranded = r.stranded
  <2> HIDE DEF withdrawn
  <2> QED BY <1>1, <1>2 DEF Runtimes
<1>4. \/ u = [ok |-> TRUE, next |-> freed]
      \/ u = [ok |-> FALSE, next |-> r]
      \/ u = [ok |-> FALSE, next |-> withdrawn]
  BY DEF UnbindOutcomes, Failed
<1> HIDE DEF withdrawn, freed
<1>5. CASE u = [ok |-> TRUE, next |-> freed] BY <1>3, <1>5
<1>6. CASE u = [ok |-> FALSE, next |-> r] BY <1>6
<1>7. CASE u = [ok |-> FALSE, next |-> withdrawn] BY <1>1, <1>7
<1> QED BY <1>4, <1>5, <1>6, <1>7

\* A binding gives the slot its VM and program; one that fails is recorded,
\* and may have occupied the slot.
LEMMA BindResult ==
  ASSUME NEW r \in Runtimes, NEW s \in SlotIds, NEW v \in VmIds,
         NEW p \in ProgramIds \union {None}, NEW b \in BindOutcomes(r, s, v, p)
  PROVE  /\ b.ok \in BOOLEAN /\ b.next \in Runtimes
         /\ r.stranded \subseteq b.next.stranded
         /\ \A t \in SlotIds : t # s => b.next.bound[t] = r.bound[t]
         /\ b.ok  => /\ b.next.bound[s] = [vm |-> v, program |-> p]
                     /\ p \in loaded
         /\ ~b.ok => s \in b.next.stranded
<1> DEFINE binding  == [vm |-> v, program |-> p]
           failing  == [r EXCEPT !.stranded = @ \union {s}]
           occupied == [failing EXCEPT !.bound[s] = binding]
           taken    == [r EXCEPT !.bound[s] = binding]
           routed   == [taken EXCEPT !.routed = @ \union {v}]
<1>1. /\ failing \in Runtimes /\ failing.bound = r.bound
      /\ failing.stranded = r.stranded \union {s}
  BY DEF Runtimes
<1>2. binding \in Bindings BY DEF Bindings
<1>3. /\ occupied \in Runtimes /\ occupied.bound = [r.bound EXCEPT ![s] = binding]
      /\ occupied.stranded = r.stranded \union {s}
  <2> HIDE DEF failing, binding
  <2> QED BY <1>1, <1>2 DEF Runtimes
<1>4. /\ taken \in Runtimes /\ taken.bound = [r.bound EXCEPT ![s] = binding]
      /\ taken.stranded = r.stranded
  <2> HIDE DEF binding
  <2> QED BY <1>2 DEF Runtimes
<1>5. /\ routed \in Runtimes /\ routed.bound = [r.bound EXCEPT ![s] = binding]
      /\ routed.stranded = r.stranded
  <2> HIDE DEF taken, binding
  <2> QED BY <1>4 DEF Runtimes
<1>6. \/ b = [ok |-> TRUE, next |-> routed] /\ p \in loaded
      \/ b = [ok |-> FALSE, next |-> failing]
      \/ b = [ok |-> FALSE, next |-> occupied]
  BY DEF BindOutcomes, Failed
<1>7. r.bound \in [SlotIds -> Bindings] BY DEF Runtimes
<1>8. CASE b = [ok |-> TRUE, next |-> routed] /\ p \in loaded
  <2> HIDE DEF routed
  <2> QED BY <1>5, <1>7, <1>8
<1>9. CASE b = [ok |-> FALSE, next |-> failing]
  <2> HIDE DEF failing
  <2> QED BY <1>1, <1>9
<1>10. CASE b = [ok |-> FALSE, next |-> occupied]
  <2> HIDE DEF occupied, binding
  <2> QED BY <1>3, <1>7, <1>10
<1> QED BY <1>6, <1>8, <1>9, <1>10

\* A rebinding is a retirement and a binding, or stops at the one that fails.
LEMMA RebindResult ==
  ASSUME runtime \in Runtimes, NEW s \in SlotIds, instance[s].vm \in VmIds,
         NEW p \in ProgramIds \union {None}, NEW b \in RebindOutcomes(s, p)
  PROVE  /\ b.ok \in BOOLEAN /\ b.next \in Runtimes
         /\ runtime.stranded \subseteq b.next.stranded
         /\ \A t \in SlotIds : t # s => b.next.bound[t] = runtime.bound[t]
         /\ b.ok  => /\ b.next.bound[s] = [vm |-> instance[s].vm, program |-> p]
                     /\ p \in loaded
         /\ ~b.ok => s \in b.next.stranded \/ b.next.bound = runtime.bound
<1>1. PICK u \in UnbindOutcomes(runtime, s) :
        b \in (IF u.ok THEN BindOutcomes(u.next, s, instance[s].vm, p) ELSE {u})
  BY DEF RebindOutcomes
<1>2. /\ u.ok \in BOOLEAN /\ u.next \in Runtimes
      /\ u.next.stranded = runtime.stranded
      /\ u.ok  => u.next.bound = [runtime.bound EXCEPT ![s] = Unbound]
      /\ ~u.ok => u.next.bound = runtime.bound
  BY UnbindResult
<1>3. runtime.bound \in [SlotIds -> Bindings] BY DEF Runtimes
<1>4. CASE u.ok
  <2>1. b \in BindOutcomes(u.next, s, instance[s].vm, p) BY <1>1, <1>4
  <2>2. /\ b.ok \in BOOLEAN /\ b.next \in Runtimes
        /\ u.next.stranded \subseteq b.next.stranded
        /\ \A t \in SlotIds : t # s => b.next.bound[t] = u.next.bound[t]
        /\ b.ok  => /\ b.next.bound[s] = [vm |-> instance[s].vm, program |-> p]
                    /\ p \in loaded
        /\ ~b.ok => s \in b.next.stranded
    BY <1>2, <2>1, BindResult
  <2>3. \A t \in SlotIds : t # s => u.next.bound[t] = runtime.bound[t]
    BY <1>2, <1>3, <1>4
  <2> QED BY <1>2, <2>2, <2>3
<1>5. CASE ~u.ok
  <2>1. b = u BY <1>1, <1>5
  <2> QED BY <1>2, <1>5, <2>1
<1> QED BY <1>2, <1>4, <1>5

-----------------------------------------------------------------------------
(* Counting the VMs of a program.                                          *)

\* Slots are finitely many.
LEMMA SlotSets ==
  ASSUME NEW S \in SUBSET SlotIds
  PROVE  IsFiniteSet(S) /\ Cardinality(S) \in 0..Capacity
<1>1. Capacity \in Nat /\ Capacity \in Int /\ 1 \in Int OBVIOUS
<1>2. IsFiniteSet(SlotIds) /\ Cardinality(SlotIds) = Capacity
  <2>1. /\ IsFiniteSet(1..Capacity)
        /\ Cardinality(1..Capacity) = IF 1 > Capacity THEN 0 ELSE Capacity - 1 + 1
    BY <1>1, FS_Interval
  <2> QED BY <1>1, <2>1 DEF SlotIds
<1>3. IsFiniteSet(S) /\ Cardinality(S) <= Cardinality(SlotIds) BY <1>2, FS_Subset
<1>4. Cardinality(S) \in Nat BY <1>3, FS_CardinalityType
<1> QED BY <1>1, <1>2, <1>3, <1>4

\* One VM more.
LEMMA OneMore ==
  ASSUME NEW S \in SUBSET SlotIds, NEW s \in SlotIds, s \notin S
  PROVE  Cardinality(S \union {s}) = Cardinality(S) + 1
BY SlotSets, FS_AddElement

\* One VM fewer.
LEMMA OneFewer ==
  ASSUME NEW S \in SUBSET SlotIds, NEW s \in S
  PROVE  Cardinality(S \ {s}) = Cardinality(S) - 1
BY SlotSets, FS_RemoveElement

\* The directory finds a VM's own instance.
LEMMA FindExact ==
  ASSUME IInv, NEW v, NEW s \in SlotIds, Find(v, s)
  PROVE  /\ v \in VmIds /\ s \in Held /\ ids[s] = v /\ instance[s].vm = v
         /\ instance[s] \in Instances /\ instance[s].program \in loaded
         /\ launched
BY DEF IInv, Shape, DirectoryIsExact, ReferencesAreExact, GivenOut, Find

-----------------------------------------------------------------------------
(* The invariant: one lemma for each call.                                 *)

\* No VM, nothing loaded.
LEMMA InitInv == Init => IInv
<1> SUFFICES ASSUME Init PROVE IInv
  OBVIOUS
<1> USE DEF Init
<1>1. Vacant \in Instances /\ Unbound \in Bindings
  BY DEF Vacant, Unbound, Instances, Bindings, Lifecycles
<1>2. NoRuntime \in Runtimes BY <1>1 DEF NoRuntime, Runtimes
<1>3. Held = {} BY DEF Held, Vacant
<1>4. Shape
  <2>1. 0 \in 0..MaxPrograms /\ 0 \in 0..MaxIds OBVIOUS
  <2>2. references \in [ProgramIds -> Nat] OBVIOUS
  <2>3. routes \in [VmIds -> SlotIds \union {None}] BY DEF NoRoutes
  <2>4. ids \in [SlotIds -> VmIds \union {None}] BY DEF NoIds
  <2>5. instance \in [SlotIds -> Instances] BY <1>1
  <2> QED BY <1>2, <2>1, <2>2, <2>3, <2>4, <2>5 DEF Shape
<1>5. ReferencesAreExact
  <2>1. \A p \in ProgramIds : {s \in Held : instance[s].program = p} = {} BY <1>3
  <2> QED BY <1>3, <2>1, FS_EmptySet DEF ReferencesAreExact
<1>6. DirectoryIsExact
  BY <1>3 DEF DirectoryIsExact, NoRoutes, NoIds, Vacant, None, SlotIds, VmIds
<1>7. RecordsAgree BY DEF RecordsAgree, NoRuntime, Unbound, Vacant
<1>8. GivenOut BY <1>3 DEF GivenOut, NoRoutes
<1> QED BY <1>4, <1>5, <1>6, <1>7, <1>8 DEF IInv

\* A new program has no VM: its id was not given out before.
LEMMA AddInv ==
  ASSUME IInv, Add
  PROVE  IInv'
<1> USE DEF IInv, Add, registry, directory
<1>1. lastProgram' \in ProgramIds /\ lastProgram' \notin loaded /\ lastProgram' = lastProgram + 1
  BY DEF Shape, GivenOut, ProgramIds
<1>2. Held' = Held BY DEF Held
<1>3. Shape' BY <1>1 DEF Shape, ProgramIds
<1>4. ReferencesAreExact'
  <2>1. Held = {} BY DEF GivenOut
  <2>2. \A p \in ProgramIds : {s \in Held' : instance'[s].program = p} = {}
    BY <1>2, <2>1
  <2>3. \A p \in ProgramIds : references[p] = 0
    BY <2>1, <2>2, FS_EmptySet DEF ReferencesAreExact
  <2>4. \A p \in ProgramIds : references'[p] = 0 BY <2>3 DEF Shape
  <2> QED BY <1>2, <2>1, <2>2, <2>4, FS_EmptySet DEF ReferencesAreExact
<1>5. DirectoryIsExact' BY <1>2 DEF DirectoryIsExact
<1>6. RecordsAgree' BY DEF RecordsAgree
<1>7. GivenOut' BY <1>1, <1>2 DEF GivenOut, Shape
<1> QED BY <1>3, <1>4, <1>5, <1>6, <1>7

\* A program is unloaded only while no VM is defined on it.
LEMMA UnloadInv ==
  ASSUME IInv, NEW p \in ProgramIds, Unload(p)
  PROVE  IInv'
<1> USE DEF IInv, Unload, registry, directory
<1>1. Held' = Held BY DEF Held
<1>2. Shape' BY DEF Shape
<1>3. ReferencesAreExact'
  <2>1. ASSUME NEW s \in Held, instance[s].program = p PROVE FALSE
    <3>1. Cardinality({t \in Held : instance[t].program = p}) = 0
      BY DEF ReferencesAreExact
    <3>2. {t \in Held : instance[t].program = p} \in SUBSET SlotIds BY DEF Held
    <3>3. {t \in Held : instance[t].program = p} = {}
      BY <3>1, <3>2, SlotSets, FS_EmptySet
    <3> QED BY <2>1, <3>3
  <2> QED BY <1>1, <2>1 DEF ReferencesAreExact
<1>4. DirectoryIsExact' BY <1>1 DEF DirectoryIsExact
<1>5. RecordsAgree' BY DEF RecordsAgree
<1>6. GivenOut' BY <1>1 DEF GivenOut
<1> QED BY <1>2, <1>3, <1>4, <1>5, <1>6

\* A launch starts with no VM, as every shutdown has left it.
LEMMA LaunchInv ==
  ASSUME IInv, Launch
  PROVE  IInv'
<1> USE DEF IInv, Launch, registry
<1>1. Vacant \in Instances /\ Unbound \in Bindings
  BY DEF Vacant, Unbound, Instances, Bindings, Lifecycles
<1>2. NoRuntime \in Runtimes BY <1>1 DEF NoRuntime, Runtimes
<1>3. Held' = {} /\ Held = {} BY DEF Held, Vacant, GivenOut
<1>4. Shape' BY <1>1, <1>2 DEF Shape, NoRoutes, NoIds
<1>5. ReferencesAreExact'
  <2>1. \A p \in ProgramIds : {s \in Held : instance[s].program = p} = {} BY <1>3
  <2>2. \A p \in ProgramIds : {s \in Held' : instance'[s].program = p} = {} BY <1>3
  <2> QED BY <1>3, <2>1, <2>2 DEF ReferencesAreExact
<1>6. DirectoryIsExact'
  BY <1>3 DEF DirectoryIsExact, NoRoutes, NoIds, Vacant, None, SlotIds, VmIds
<1>7. RecordsAgree' BY DEF RecordsAgree, NoRuntime, Unbound, Vacant
<1>8. GivenOut' BY <1>3 DEF GivenOut, NoRoutes
<1> QED BY <1>4, <1>5, <1>6, <1>7, <1>8

\* A shutdown gives every VM's reference back.
LEMMA ShutdownInv ==
  ASSUME IInv, Shutdown
  PROVE  IInv'
<1> USE DEF IInv, Shutdown
<1>1. Vacant \in Instances /\ Unbound \in Bindings
  BY DEF Vacant, Unbound, Instances, Bindings, Lifecycles
<1>2. NoRuntime \in Runtimes BY <1>1 DEF NoRuntime, Runtimes
<1>3. Held' = {} BY DEF Held, Vacant
<1>4. \A p \in ProgramIds : references'[p] = 0
  BY DEF Shape, ReferencesAreExact
<1>5. Shape'
  <2>1. 0 \in 0..MaxIds OBVIOUS
  <2>2. references' \in [ProgramIds -> Nat] BY <1>4
  <2>3. routes' \in [VmIds -> SlotIds \union {None}] BY DEF NoRoutes
  <2>4. ids' \in [SlotIds -> VmIds \union {None}] BY DEF NoIds
  <2>5. instance' \in [SlotIds -> Instances] BY <1>1
  <2> QED BY <1>2, <2>1, <2>2, <2>3, <2>4, <2>5 DEF Shape
<1>6. ReferencesAreExact'
  <2>1. \A p \in ProgramIds : {s \in Held' : instance'[s].program = p} = {} BY <1>3
  <2> QED BY <1>3, <1>4, <2>1, FS_EmptySet DEF ReferencesAreExact
<1>7. DirectoryIsExact'
  BY <1>3 DEF DirectoryIsExact, NoRoutes, NoIds, Vacant, None, SlotIds, VmIds
<1>8. RecordsAgree' BY DEF RecordsAgree, NoRuntime, Unbound, Vacant
<1>9. GivenOut' BY <1>3 DEF GivenOut, NoRoutes
<1> QED BY <1>5, <1>6, <1>7, <1>8, <1>9
\* A step that keeps each slot's VM and program, and who has one, keeps the
\* books: the counts and the directory depend on nothing else.
LEMMA SameVms ==
  ASSUME IInv, instance' \in [SlotIds -> Instances],
         \A s \in SlotIds : /\ instance'[s].vm = instance[s].vm
                            /\ instance'[s].program = instance[s].program
                            /\ instance'[s].lifecycle = "EMPTY" <=> instance[s].lifecycle = "EMPTY",
         UNCHANGED <<launched, registry, directory>>
  PROVE  ReferencesAreExact' /\ DirectoryIsExact' /\ GivenOut'
<1> USE DEF IInv, registry, directory
<1>1. Held' = Held BY DEF Held
<1>2. \A p \in ProgramIds : Users(p)' = Users(p) BY <1>1 DEF Users, Held
<1>3. ReferencesAreExact'
  BY <1>1, <1>2 DEF ReferencesAreExact, Users, Held
<1>4. DirectoryIsExact' BY <1>1 DEF DirectoryIsExact
<1>5. GivenOut' BY <1>1 DEF GivenOut
<1> QED BY <1>3, <1>4, <1>5

\* Starting, stopping and resuming change the lifecycle only.
LEMMA MoveInv ==
  ASSUME IInv, NEW v \in VmIds, NEW s \in SlotIds, VmMove(v, s)
  PROVE  IInv'
<1> USE DEF IInv
<1>1. PICK l \in {"RUNNING", "STOPPED"} : instance' = [instance EXCEPT ![s].lifecycle = l]
  BY DEF VmMove
<1>2. /\ s \in Held /\ UNCHANGED <<launched, engine, registry, directory, runtime, onDevice>>
  BY DEF VmMove, Find
<1>3. /\ instance' \in [SlotIds -> Instances]
      /\ \A t \in SlotIds : t # s => instance'[t] = instance[t]
      /\ instance'[s].vm = instance[s].vm /\ instance'[s].program = instance[s].program
      /\ instance'[s].lifecycle = l
  BY <1>1 DEF Shape, Instances, Lifecycles
<1>4. /\ instance[s].lifecycle # "EMPTY" /\ l # "EMPTY" BY <1>1, <1>2 DEF Held
<1>5. \A t \in SlotIds : /\ instance'[t].vm = instance[t].vm
                         /\ instance'[t].program = instance[t].program
                         /\ instance'[t].lifecycle = "EMPTY" <=> instance[t].lifecycle = "EMPTY"
  BY <1>3, <1>4
<1>6. ReferencesAreExact' /\ DirectoryIsExact' /\ GivenOut'
  BY <1>2, <1>3, <1>5, SameVms
<1>7. Shape' BY <1>2, <1>3 DEF Shape, registry, directory
<1>8. RecordsAgree' BY <1>2, <1>5 DEF RecordsAgree
<1> QED BY <1>6, <1>7, <1>8

\* A reset keeps VM and program, of the instance and of the slot's record.
LEMMA ResetInv ==
  ASSUME IInv, NEW v \in VmIds, NEW s \in SlotIds, VmReset(v, s)
  PROVE  IInv'
<1> USE DEF IInv
<1>1. /\ Find(v, s) /\ instance[s].lifecycle = "STOPPED"
      /\ UNCHANGED <<launched, engine, registry, directory, onDevice>>
  BY DEF VmReset
<1>2. PICK b \in RebindOutcomes(s, runtime.bound[s].program) :
        /\ runtime' = b.next
        /\ IF b.ok THEN instance' = [instance EXCEPT ![s].lifecycle = "READY"]
                   ELSE UNCHANGED instance
  BY DEF VmReset
<1>3. instance[s].vm \in VmIds BY <1>1, FindExact
<1>4. /\ runtime \in Runtimes /\ runtime.bound[s].program \in ProgramIds \union {None}
  BY DEF Shape, Runtimes, Bindings
<1>5. /\ b.ok \in BOOLEAN /\ b.next \in Runtimes
      /\ runtime.stranded \subseteq b.next.stranded
      /\ \A t \in SlotIds : t # s => b.next.bound[t] = runtime.bound[t]
      /\ b.ok  => b.next.bound[s] = [vm |-> instance[s].vm, program |-> runtime.bound[s].program]
      /\ ~b.ok => s \in b.next.stranded \/ b.next.bound = runtime.bound
  BY <1>2, <1>3, <1>4, RebindResult
<1>6. /\ instance' \in [SlotIds -> Instances]
      /\ \A t \in SlotIds : /\ instance'[t].vm = instance[t].vm
                            /\ instance'[t].program = instance[t].program
                            /\ instance'[t].lifecycle = "EMPTY" <=> instance[t].lifecycle = "EMPTY"
  <2>1. CASE b.ok
    <3>1. instance' = [instance EXCEPT ![s].lifecycle = "READY"] BY <1>2, <2>1
    <3>2. /\ instance' \in [SlotIds -> Instances]
          /\ \A t \in SlotIds : t # s => instance'[t] = instance[t]
          /\ instance'[s].vm = instance[s].vm /\ instance'[s].program = instance[s].program
          /\ instance'[s].lifecycle = "READY"
      BY <3>1 DEF Shape, Instances, Lifecycles
    <3> QED BY <1>1, <3>2
  <2>2. CASE ~b.ok BY <1>2, <2>2 DEF Shape
  <2> QED BY <1>5, <2>1, <2>2
<1>7. ReferencesAreExact' /\ DirectoryIsExact' /\ GivenOut' BY <1>1, <1>6, SameVms
<1>8. Shape' BY <1>1, <1>2, <1>5, <1>6 DEF Shape, registry, directory
<1>9. RecordsAgree'
  <2> SUFFICES ASSUME NEW t \in SlotIds, t \notin runtime'.stranded
               PROVE  /\ runtime'.bound[t].vm = instance'[t].vm
                      /\ runtime'.bound[t].program = instance'[t].program
    BY DEF RecordsAgree
  <2>1. t \notin runtime.stranded BY <1>2, <1>5
  <2>2. runtime.bound[t].vm = instance[t].vm /\ runtime.bound[t].program = instance[t].program
    BY <2>1 DEF RecordsAgree
  <2>3. CASE t # s BY <1>2, <1>5, <1>6, <2>2, <2>3
  <2>4. CASE t = s BY <1>2, <1>5, <1>6, <2>2, <2>4
  <2> QED BY <2>3, <2>4
<1> QED BY <1>7, <1>8, <1>9
\* An exchange of programs moves one reference, or none.
LEMMA SetProgramInv ==
  ASSUME IInv, NEW v \in VmIds, NEW s \in SlotIds, NEW p \in ProgramIds,
         VmSetProgram(v, s, p)
  PROVE  IInv'
<1> USE DEF IInv
<1>a. Find(v, s) BY DEF VmSetProgram
<1>b. PICK old \in ProgramIds : old = instance[s].program
  BY <1>a, FindExact DEF Shape
<1>1. /\ Find(v, s) /\ p \in loaded /\ p # old
      /\ UNCHANGED <<launched, engine, loaded, lastProgram, directory, onDevice>>
  BY <1>b DEF VmSetProgram
<1>2. PICK b \in RebindOutcomes(s, p) :
        /\ runtime' = b.next
        /\ IF b.ok
             THEN /\ references' = [Retain(p) EXCEPT ![old] = @ - 1]
                  /\ instance' = [instance EXCEPT ![s].program = p, ![s].lifecycle = "READY"]
             ELSE UNCHANGED <<references, instance>>
  BY <1>b DEF VmSetProgram
<1>3. /\ instance[s].vm \in VmIds /\ s \in Held /\ old \in loaded /\ old \in ProgramIds
      /\ runtime \in Runtimes
  BY <1>1, <1>b, FindExact DEF Shape
<1>4. /\ b.ok \in BOOLEAN /\ b.next \in Runtimes
      /\ runtime.stranded \subseteq b.next.stranded
      /\ \A t \in SlotIds : t # s => b.next.bound[t] = runtime.bound[t]
      /\ b.ok  => b.next.bound[s] = [vm |-> instance[s].vm, program |-> p]
      /\ ~b.ok => s \in b.next.stranded \/ b.next.bound = runtime.bound
  BY <1>2, <1>3, RebindResult
<1>5. ASSUME NEW t \in SlotIds, t \notin runtime'.stranded
      PROVE  /\ runtime.bound[t].vm = instance[t].vm
             /\ runtime.bound[t].program = instance[t].program
  BY <1>2, <1>4, <1>5 DEF RecordsAgree
<1>6. CASE ~b.ok
  <2>1. UNCHANGED <<references, instance>> BY <1>2, <1>6
  <2>2. ReferencesAreExact' /\ DirectoryIsExact' /\ GivenOut'
    BY <1>1, <2>1, SameVms DEF Shape, registry
  <2>3. Shape' BY <1>1, <1>2, <1>4, <2>1 DEF Shape, directory
  <2>4. RecordsAgree'
    <3> SUFFICES ASSUME NEW t \in SlotIds, t \notin runtime'.stranded
                 PROVE  /\ runtime'.bound[t].vm = instance'[t].vm
                        /\ runtime'.bound[t].program = instance'[t].program
      BY DEF RecordsAgree
    <3> QED BY <1>2, <1>4, <1>5, <1>6, <2>1
  <2> QED BY <2>2, <2>3, <2>4
<1>7. CASE b.ok
  <2>1. /\ references' = [Retain(p) EXCEPT ![old] = @ - 1]
        /\ instance' = [instance EXCEPT ![s].program = p, ![s].lifecycle = "READY"]
    BY <1>2, <1>7
  <2>2. /\ instance' \in [SlotIds -> Instances]
        /\ \A t \in SlotIds : t # s => instance'[t] = instance[t]
        /\ instance'[s].vm = instance[s].vm /\ instance'[s].program = p
        /\ instance'[s].lifecycle = "READY"
    BY <2>1 DEF Shape, Instances, Lifecycles
  <2>3. Held' = Held BY <1>3, <2>2 DEF Held
  <2>4. /\ Users(p)' = Users(p) \union {s} /\ s \notin Users(p)
        /\ Users(old)' = Users(old) \ {s} /\ s \in Users(old)
        /\ \A q \in ProgramIds : q # p /\ q # old => Users(q)' = Users(q)
    <3>1. Held \subseteq SlotIds BY DEF Held
    <3>2. Users(p)' = Users(p) \union {s} BY <1>3, <2>2, <2>3, <3>1 DEF Users
    <3>3. Users(old)' = Users(old) \ {s} BY <1>1, <1>b, <2>2, <2>3, <3>1 DEF Users
    <3>4. s \notin Users(p) /\ s \in Users(old) BY <1>1, <1>3, <1>b DEF Users
    <3>5. \A q \in ProgramIds : q # p /\ q # old => Users(q)' = Users(q)
      BY <1>b, <2>2, <2>3, <3>1 DEF Users
    <3> QED BY <3>2, <3>3, <3>4, <3>5
  <2>5. \A q \in ProgramIds : Users(q) \in SUBSET SlotIds BY DEF Users, Held
  <2>6. \A q \in ProgramIds : references[q] = Cardinality(Users(q))
    BY DEF ReferencesAreExact, Users
  <2>7. /\ references' \in [ProgramIds -> Int]
        /\ references'[p] = references[p] + 1 /\ references'[old] = references[old] - 1
        /\ \A q \in ProgramIds : q # p /\ q # old => references'[q] = references[q]
    BY <1>1, <1>3, <2>1 DEF Retain, Shape
  <2>8. /\ Cardinality(Users(p)') = Cardinality(Users(p)) + 1
        /\ Cardinality(Users(old)') = Cardinality(Users(old)) - 1
    BY <1>3, <2>4, <2>5, OneMore, OneFewer
  <2>9. \A q \in ProgramIds : references'[q] = Cardinality(Users(q)')
    BY <1>3, <2>4, <2>6, <2>7, <2>8
  <2>10. ReferencesAreExact'
    BY <1>1, <2>2, <2>3, <2>9 DEF ReferencesAreExact, Users, Held
  <2>11. DirectoryIsExact'
    BY <1>1, <2>2, <2>3 DEF DirectoryIsExact, directory
  <2>12. GivenOut' BY <1>1, <2>3 DEF GivenOut, directory
  <2>13. Shape'
    <3>1. \A q \in ProgramIds : Users(q)' \in SUBSET SlotIds
      BY <2>3 DEF Users, Held
    <3>2. \A q \in ProgramIds : Cardinality(Users(q)') \in Nat BY <3>1, SlotSets
    <3>3. references' \in [ProgramIds -> Nat] BY <2>7, <2>9, <3>2
    <3> QED BY <1>1, <1>2, <1>4, <2>2, <3>3 DEF Shape, directory
  <2>14. RecordsAgree'
    <3> SUFFICES ASSUME NEW t \in SlotIds, t \notin runtime'.stranded
                 PROVE  /\ runtime'.bound[t].vm = instance'[t].vm
                        /\ runtime'.bound[t].program = instance'[t].program
      BY DEF RecordsAgree
    <3>1. CASE t # s BY <1>2, <1>4, <1>5, <2>2, <3>1
    <3>2. CASE t = s BY <1>2, <1>4, <1>7, <2>2, <3>2
    <3> QED BY <3>1, <3>2
  <2> QED BY <2>10, <2>11, <2>12, <2>13, <2>14
<1> QED BY <1>4, <1>6, <1>7

\* A deletion takes the VM out of every table at once, or out of none.
LEMMA DeleteInv ==
  ASSUME IInv, NEW v \in VmIds, NEW s \in SlotIds, VmDelete(v, s)
  PROVE  IInv'
<1> USE DEF IInv
<1>a. Find(v, s) BY DEF VmDelete
<1>b. PICK p \in ProgramIds : p = instance[s].program
  BY <1>a, FindExact DEF Shape
<1>1. Find(v, s) /\ UNCHANGED <<launched, engine, loaded, lastProgram, lastId, onDevice>>
  BY DEF VmDelete
<1>2. PICK u \in UnbindOutcomes(runtime, s) :
        /\ runtime' = u.next
        /\ IF u.ok
             THEN /\ routes' = [routes EXCEPT ![v] = None]
                  /\ ids' = [ids EXCEPT ![s] = None]
                  /\ references' = Release(p)
                  /\ instance' = [instance EXCEPT ![s] = Vacant]
             ELSE UNCHANGED <<routes, ids, references, instance>>
  BY <1>b DEF VmDelete
<1>3. /\ s \in Held /\ p \in loaded /\ p \in ProgramIds /\ routes[v] = s
      /\ runtime \in Runtimes /\ runtime.bound \in [SlotIds -> Bindings]
  BY <1>1, <1>b, FindExact DEF Shape, Find, Runtimes
<1>4. /\ u.ok \in BOOLEAN /\ u.next \in Runtimes
      /\ u.next.stranded = runtime.stranded
      /\ u.ok  => u.next.bound = [runtime.bound EXCEPT ![s] = Unbound]
      /\ ~u.ok => u.next.bound = runtime.bound
  BY <1>2, <1>3, UnbindResult
<1>5. CASE ~u.ok
  <2>1. UNCHANGED <<routes, ids, references, instance>> BY <1>2, <1>5
  <2>2. ReferencesAreExact' /\ DirectoryIsExact' /\ GivenOut'
    BY <1>1, <2>1, SameVms DEF Shape, registry, directory
  <2>3. Shape' BY <1>1, <1>2, <1>4, <2>1 DEF Shape
  <2>4. RecordsAgree' BY <1>2, <1>4, <1>5, <2>1 DEF RecordsAgree
  <2> QED BY <2>2, <2>3, <2>4
<1>6. CASE u.ok
  <2>1. /\ routes' = [routes EXCEPT ![v] = None]
        /\ ids' = [ids EXCEPT ![s] = None]
        /\ references' = Release(p)
        /\ instance' = [instance EXCEPT ![s] = Vacant]
    BY <1>2, <1>6
  <2>2. Vacant \in Instances /\ Vacant.lifecycle = "EMPTY" /\ Vacant.vm = None
        /\ Vacant.program = None
    BY DEF Vacant, Instances, Lifecycles
  <2>3. /\ instance' \in [SlotIds -> Instances]
        /\ \A t \in SlotIds : t # s => instance'[t] = instance[t]
        /\ instance'[s] = Vacant
    BY <2>1, <2>2 DEF Shape
  <2>4. Held' = Held \ {s} BY <2>2, <2>3 DEF Held
  <2>5. /\ Users(p)' = Users(p) \ {s} /\ s \in Users(p)
        /\ \A q \in ProgramIds : q # p => Users(q)' = Users(q)
    <3>1. Held \subseteq SlotIds BY DEF Held
    <3>2. Users(p)' = Users(p) \ {s} BY <1>b, <2>2, <2>3, <2>4, <3>1 DEF Users
    <3>3. s \in Users(p) BY <1>3, <1>b DEF Users
    <3>4. \A q \in ProgramIds : q # p => Users(q)' = Users(q)
      BY <1>b, <2>3, <2>4, <3>1 DEF Users
    <3> QED BY <3>2, <3>3, <3>4
  <2>6. \A q \in ProgramIds : Users(q) \in SUBSET SlotIds BY DEF Users, Held
  <2>7. \A q \in ProgramIds : references[q] = Cardinality(Users(q))
    BY DEF ReferencesAreExact, Users
  <2>8. /\ references' \in [ProgramIds -> Int] /\ references'[p] = references[p] - 1
        /\ \A q \in ProgramIds : q # p => references'[q] = references[q]
    BY <1>3, <2>1 DEF Release, Shape
  <2>9. Cardinality(Users(p)') = Cardinality(Users(p)) - 1
    BY <1>3, <2>5, <2>6, OneFewer
  <2>10. \A q \in ProgramIds : references'[q] = Cardinality(Users(q)')
    BY <1>3, <2>5, <2>7, <2>8, <2>9
  <2>11. ReferencesAreExact'
    BY <1>1, <2>3, <2>4, <2>10 DEF ReferencesAreExact, Users, Held
  <2>12. DirectoryIsExact'
    <3>1. \A w \in VmIds, t \in SlotIds : routes'[w] = t <=> ids'[t] = w
      BY <1>3, <2>1 DEF DirectoryIsExact, Shape, SlotIds, VmIds, None
    <3>2. \A t \in SlotIds : ids'[t] = instance'[t].vm /\ (t \in Held' <=> ids'[t] # None)
      BY <2>1, <2>2, <2>3, <2>4 DEF DirectoryIsExact, Shape
    <3> QED BY <3>1, <3>2 DEF DirectoryIsExact
  <2>13. GivenOut' BY <1>1, <2>1, <2>4 DEF GivenOut, Shape
  <2>14. Shape'
    <3>1. \A q \in ProgramIds : Users(q)' \in SUBSET SlotIds
      BY <2>4 DEF Users, Held
    <3>2. \A q \in ProgramIds : Cardinality(Users(q)') \in Nat BY <3>1, SlotSets
    <3>3. references' \in [ProgramIds -> Nat] BY <2>8, <2>10, <3>2
    <3> QED BY <1>1, <1>2, <1>4, <2>1, <2>3, <3>3 DEF Shape
  <2>15. RecordsAgree'
    <3>1. Unbound.vm = None /\ Unbound.program = None BY DEF Unbound
    <3> QED BY <1>2, <1>3, <1>4, <1>6, <2>2, <2>3, <3>1 DEF RecordsAgree
  <2> QED BY <2>11, <2>12, <2>13, <2>14, <2>15
<1> QED BY <1>4, <1>5, <1>6
\* A creation enters the VM in every table, or loses its id.
LEMMA CreateInv ==
  ASSUME IInv, NEW s \in SlotIds, NEW p \in ProgramIds, VmCreate(s, p)
  PROVE  IInv'
<1> USE DEF IInv
<1> DEFINE n == lastId + 1
<1>1. /\ launched /\ p \in loaded /\ s \notin Held /\ ids[s] = None /\ lastId' = n
      /\ UNCHANGED <<launched, engine, loaded, lastProgram, onDevice>>
  BY DEF VmCreate, FirstVacant
<1>2. n \in VmIds /\ n \in 0..MaxIds /\ n # None /\ routes[n] = None
  BY DEF VmCreate, Shape, GivenOut, VmIds, None
<1>3. PICK b \in BindOutcomes(runtime, s, n, p) :
        /\ runtime' = b.next
        /\ IF b.ok
             THEN /\ routes' = [routes EXCEPT ![n] = s]
                  /\ ids' = [ids EXCEPT ![s] = n]
                  /\ references' = Retain(p)
                  /\ instance' = [instance EXCEPT ![s] =
                       [vm |-> n, program |-> p, lifecycle |-> "READY"]]
             ELSE UNCHANGED <<routes, ids, references, instance>>
  BY <1>1 DEF VmCreate
<1>4. runtime \in Runtimes BY DEF Shape
<1>5. /\ b.ok \in BOOLEAN /\ b.next \in Runtimes
      /\ runtime.stranded \subseteq b.next.stranded
      /\ \A t \in SlotIds : t # s => b.next.bound[t] = runtime.bound[t]
      /\ b.ok  => b.next.bound[s] = [vm |-> n, program |-> p]
      /\ ~b.ok => s \in b.next.stranded
  <2> HIDE DEF n
  <2> QED BY <1>2, <1>4, BindResult
<1>6. ASSUME NEW t \in SlotIds, t \notin runtime'.stranded
      PROVE  /\ runtime.bound[t].vm = instance[t].vm
             /\ runtime.bound[t].program = instance[t].program
  BY <1>3, <1>5, <1>6 DEF RecordsAgree
<1>7. CASE ~b.ok
  <2>1. UNCHANGED <<routes, ids, references, instance>> BY <1>3, <1>7
  <2>2. Held' = Held BY <2>1 DEF Held
  <2>3. ReferencesAreExact' BY <1>1, <2>1, <2>2 DEF ReferencesAreExact
  <2>4. DirectoryIsExact' BY <2>1, <2>2 DEF DirectoryIsExact
  <2>5. GivenOut'
    <3>1. \A w \in VmIds : routes'[w] # None => w <= lastId'
      BY <1>1, <2>1 DEF GivenOut, Shape, VmIds
    <3> QED BY <1>1, <2>2, <3>1 DEF GivenOut
  <2>6. Shape' BY <1>1, <1>2, <1>3, <1>5, <2>1 DEF Shape
  <2>7. RecordsAgree'
    <3> SUFFICES ASSUME NEW t \in SlotIds, t \notin runtime'.stranded
                 PROVE  /\ runtime'.bound[t].vm = instance'[t].vm
                        /\ runtime'.bound[t].program = instance'[t].program
      BY DEF RecordsAgree
    <3>1. t # s BY <1>3, <1>5, <1>7
    <3> QED BY <1>3, <1>5, <1>6, <2>1, <3>1
  <2> QED BY <2>3, <2>4, <2>5, <2>6, <2>7
<1>8. CASE b.ok
  <2> DEFINE new == [vm |-> n, program |-> p, lifecycle |-> "READY"]
  <2>1. /\ routes' = [routes EXCEPT ![n] = s]
        /\ ids' = [ids EXCEPT ![s] = n]
        /\ references' = Retain(p)
        /\ instance' = [instance EXCEPT ![s] = new]
    BY <1>3, <1>8
  <2>2. new \in Instances BY <1>2 DEF Instances, Lifecycles
  <2>3. /\ instance' \in [SlotIds -> Instances]
        /\ \A t \in SlotIds : t # s => instance'[t] = instance[t]
        /\ instance'[s] = new
    <3> HIDE DEF new
    <3> QED BY <2>1, <2>2 DEF Shape
  <2>4. Held' = Held \union {s} BY <2>3 DEF Held
  <2>5. /\ Users(p)' = Users(p) \union {s} /\ s \notin Users(p)
        /\ \A q \in ProgramIds : q # p => Users(q)' = Users(q)
    <3>1. Held \subseteq SlotIds BY DEF Held
    <3>2. Users(p)' = Users(p) \union {s} BY <2>3, <2>4, <3>1 DEF Users
    <3>3. s \notin Users(p) BY <1>1 DEF Users
    <3>4. \A q \in ProgramIds : q # p => Users(q)' = Users(q)
      BY <1>1, <2>3, <2>4, <3>1 DEF Users
    <3> QED BY <3>2, <3>3, <3>4
  <2>6. \A q \in ProgramIds : Users(q) \in SUBSET SlotIds BY DEF Users, Held
  <2>7. \A q \in ProgramIds : references[q] = Cardinality(Users(q))
    BY DEF ReferencesAreExact, Users
  <2>8. /\ references' \in [ProgramIds -> Nat] /\ references'[p] = references[p] + 1
        /\ \A q \in ProgramIds : q # p => references'[q] = references[q]
    BY <2>1 DEF Retain, Shape
  <2>9. Cardinality(Users(p)') = Cardinality(Users(p)) + 1
    BY <2>5, <2>6, OneMore
  <2>10. \A q \in ProgramIds : references'[q] = Cardinality(Users(q)')
    BY <2>5, <2>7, <2>8, <2>9
  <2>11. ReferencesAreExact'
    BY <1>1, <2>3, <2>4, <2>10 DEF ReferencesAreExact, Users, Held
  <2>12. DirectoryIsExact'
    <3>1. \A w \in VmIds, t \in SlotIds : routes'[w] = t <=> ids'[t] = w
      <4> HIDE DEF n
      <4> QED BY <1>1, <1>2, <2>1 DEF DirectoryIsExact, Shape, SlotIds, VmIds, None
    <3>2. \A t \in SlotIds : ids'[t] = instance'[t].vm /\ (t \in Held' <=> ids'[t] # None)
      <4> HIDE DEF n
      <4> QED BY <1>2, <2>1, <2>3, <2>4 DEF DirectoryIsExact, Shape
    <3> QED BY <3>1, <3>2 DEF DirectoryIsExact
  <2>13. GivenOut'
    <3>1. \A w \in VmIds : routes'[w] # None => w <= lastId'
      BY <1>1, <1>2, <2>1 DEF GivenOut, Shape, VmIds
    <3> QED BY <1>1, <3>1 DEF GivenOut
  <2>14. Shape'
    <3>1. routes' \in [VmIds -> SlotIds \union {None}]
      <4> HIDE DEF n
      <4> QED BY <1>2, <2>1 DEF Shape
    <3>2. ids' \in [SlotIds -> VmIds \union {None}]
      <4> HIDE DEF n
      <4> QED BY <1>2, <2>1 DEF Shape
    <3> QED BY <1>1, <1>2, <1>3, <1>5, <2>3, <2>8, <3>1, <3>2 DEF Shape
  <2>15. RecordsAgree'
    <3> SUFFICES ASSUME NEW t \in SlotIds, t \notin runtime'.stranded
                 PROVE  /\ runtime'.bound[t].vm = instance'[t].vm
                        /\ runtime'.bound[t].program = instance'[t].program
      BY DEF RecordsAgree
    <3>1. CASE t # s BY <1>3, <1>5, <1>6, <2>3, <3>1
    <3>2. CASE t = s BY <1>3, <1>5, <1>8, <2>3, <3>2
    <3> QED BY <3>1, <3>2
  <2> QED BY <2>11, <2>12, <2>13, <2>14, <2>15
<1> QED BY <1>5, <1>7, <1>8

-----------------------------------------------------------------------------
\* Every call preserves the invariant, in each of its outcomes.
LEMMA StepInv == IInv /\ [Next]_vars => IInv'
<1> SUFFICES ASSUME IInv, [Next]_vars PROVE IInv'
  OBVIOUS
<1>1. CASE Add \/ Launch \/ Shutdown BY <1>1, AddInv, LaunchInv, ShutdownInv
<1>2. CASE \E p \in ProgramIds : Unload(p) BY <1>2, UnloadInv
<1>3. CASE \E s \in SlotIds, p \in ProgramIds : VmCreate(s, p) BY <1>3, CreateInv
<1>4. ASSUME NEW v \in VmIds, NEW s \in SlotIds,
             \/ VmMove(v, s) \/ VmReset(v, s) \/ VmDelete(v, s)
             \/ \E p \in ProgramIds : VmSetProgram(v, s, p)
      PROVE  IInv'
  BY <1>4, MoveInv, ResetInv, DeleteInv, SetProgramInv
<1>5. CASE UNCHANGED vars
  <2>1. UNCHANGED <<launched, registry, directory, instance, runtime, onDevice, engine>>
    BY <1>5 DEF vars
  <2> QED BY <2>1, SameVms DEF IInv, Shape, RecordsAgree, registry, directory
<1> QED BY <1>1, <1>2, <1>3, <1>4, <1>5 DEF Next

\* The invariant holds in every reachable state.
THEOREM Invariance == Spec => []IInv
BY InitInv, StepInv, PTL DEF Spec

\* The books are well-typed, and a reference count is at most the number of slots.
THEOREM TypeCorrect == Spec => []TypeOK
<1>1. IInv => TypeOK
  <2> SUFFICES ASSUME IInv PROVE TypeOK
    OBVIOUS
  <2>1. \A p \in ProgramIds : references[p] \in 0..Capacity
    <3> TAKE p \in ProgramIds
    <3>1. Users(p) \in SUBSET SlotIds BY DEF Users, Held
    <3>2. references[p] = Cardinality(Users(p)) BY DEF IInv, ReferencesAreExact, Users
    <3> QED BY <3>1, <3>2, SlotSets
  <2>2. references \in [ProgramIds -> 0..Capacity] BY <2>1 DEF IInv, Shape
  <2> QED BY <2>2 DEF IInv, Shape, TypeOK, Instances, Runtimes, Bindings, Lifecycles
<1> QED BY <1>1, Invariance, PTL

\* A program's reference count is the number of VMs defined on it, for any
\* population and any failures of retirement and binding.
THEOREM ReferencesExact == Spec => []ReferencesAreExact
BY Invariance, PTL DEF IInv

\* The tables of VmDirectory stay inverse to each other and name exactly the
\* VMs there are.
THEOREM DirectoryExact == Spec => []DirectoryIsExact
BY Invariance, PTL DEF IInv

\* Only a binding that failed puts the runtime's slot records at odds with the
\* supervisor's instances; no failing retirement does.
THEOREM RecordsAgreement == Spec => []RecordsAgree
BY Invariance, PTL DEF IInv
=============================================================================
