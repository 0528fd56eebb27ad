--------------------------- MODULE BroadcastQueue ----------------------------
(***************************************************************************)
(* What the shared memory queues promise: one writer publishes commands,   *)
(* and every reader executes all of them, in the order of publication.     *)
(***************************************************************************)
EXTENDS Naturals, Sequences

CONSTANTS Readers, Commands

VARIABLES
  published, \* the commands the writer has published, in order
  executed   \* per reader, the commands it has executed, in order

vars == <<published, executed>>

Init ==
  /\ published = << >>
  /\ executed = [r \in Readers |-> << >>]

Publish ==
  /\ \E cmd \in Commands : published' = Append(published, cmd)
  /\ UNCHANGED executed

Execute(r) ==
  /\ Len(executed[r]) < Len(published)
  /\ executed' = [executed EXCEPT ![r] = Append(@, published[Len(@) + 1])]
  /\ UNCHANGED published

Next == Publish \/ \E r \in Readers : Execute(r)

Spec == Init /\ [][Next]_vars
==============================================================================
