------------------------------ MODULE Delivery ------------------------------
(***************************************************************************)
(* What crank promises about a job, whichever broker keeps it: delivery at *)
(* least once.  A job the client was told to be enqueued stays with the    *)
(* system until it has been performed or buried in the dead set, copies of *)
(* it included, or is cleared with its queue, and nothing but the client   *)
(* brings a job into the system.                                           *)
(***************************************************************************)
CONSTANT JIDs

VARIABLES
  accepted,   \* jobs whose Enqueue has returned nil
  kept,       \* jobs that are stored, leased or in some goroutine's hands
  performed,  \* jobs whose handler has returned nil
  buried,     \* jobs in the dead set
  withdrawn   \* jobs taken back by Queue.Clear

vars == <<accepted, kept, performed, buried, withdrawn>>

Init == /\ accepted = {} /\ kept = {}
        /\ performed = {} /\ buried = {} /\ withdrawn = {}

Accept(jid) ==
  /\ jid \notin accepted
  /\ accepted' = accepted \cup {jid}
  /\ kept' = kept \cup {jid}
  /\ UNCHANGED <<performed, buried, withdrawn>>

\* The last copy may go in the same step.
MayRelease(jid) == kept' \in {kept, kept \ {jid}}

Perform(jid) ==
  /\ jid \in kept
  /\ performed' = performed \cup {jid}
  /\ MayRelease(jid)
  /\ UNCHANGED <<accepted, buried, withdrawn>>

Bury(jid) ==
  /\ jid \in kept
  /\ buried' = buried \cup {jid}
  /\ MayRelease(jid)
  /\ UNCHANGED <<accepted, performed, withdrawn>>

Release(jid) ==
  /\ jid \in performed \cup buried \cup withdrawn
  /\ kept' = kept \ {jid}
  /\ UNCHANGED <<accepted, performed, buried, withdrawn>>

\* Jobs that wait in one queue are taken back; copies of them may remain.
Withdraw(jids) ==
  /\ jids \subseteq kept
  /\ withdrawn' = withdrawn \cup jids
  /\ \E gone \in SUBSET jids : kept' = kept \ gone
  /\ UNCHANGED <<accepted, performed, buried>>

Next ==
  \/ \E jid \in JIDs : Accept(jid) \/ Perform(jid) \/ Bury(jid) \/ Release(jid)
  \/ \E jids \in SUBSET JIDs : Withdraw(jids)

Spec == Init /\ [][Next]_vars
=============================================================================
