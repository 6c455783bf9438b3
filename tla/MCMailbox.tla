----------------------------- MODULE MCMailbox -----------------------------
(* The mailbox of one VM on a small instance.                              *)
EXTENDS MailboxChannel
=============================================================================
