----------------------------- MODULE JobDelivery -----------------------------
(***************************************************************************)
(* What the list, the consumers and the pools promise of a job's message,  *)
(* without processes, goroutines and channels: it is received once, it is  *)
(* under way until a worker begins its job or it is gone, and it is never  *)
(* under way again. This much of them is what GradeSystem builds on.       *)
(***************************************************************************)
CONSTANTS
  Messages,
  Unreadable  \* those that are no JSON: no job can be begun for them

VARIABLES
  received,   \* messages the list has received
  underWay,   \* those that may still reach a worker
  begun       \* those whose job a worker has begun

vars == <<received, underWay, begun>>

Init ==
  /\ received = {}
  /\ underWay = {}
  /\ begun = {}

Same(m) ==
  /\ m \in received <=> m \in received'
  /\ m \in underWay <=> m \in underWay'
  /\ m \in begun <=> m \in begun'

\* The list receives m.
Receive(m) ==
  /\ m \notin received /\ m \in received'
  /\ m \in underWay'
  /\ m \notin begun /\ m \notin begun'

\* A worker begins m's job.
BeginJob(m) ==
  /\ m \notin Unreadable
  /\ m \in received /\ m \in received'
  /\ m \in underWay /\ m \notin underWay'
  /\ m \notin begun /\ m \in begun'

\* m is dropped, buried, or gone with a call or a process.
LoseMessage(m) ==
  /\ m \in received /\ m \in received'
  /\ m \in underWay /\ m \notin underWay'
  /\ m \notin begun /\ m \notin begun'

\* A process that ends takes several messages with it, and they alone can
\* change together.
Next ==
  /\ received' \subseteq Messages
  /\ underWay' \subseteq received' /\ begun' \subseteq received'
  /\ \A m \in Messages : Same(m) \/ Receive(m) \/ BeginJob(m) \/ LoseMessage(m)

Spec == Init /\ [][Next]_vars
=============================================================================
