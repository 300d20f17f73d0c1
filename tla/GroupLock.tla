------------------------------ MODULE GroupLock ------------------------------
(***************************************************************************)
(* What a JobGroup lock promises: a stack of calls.  A call from outside   *)
(* enters only when the stack is empty, a further call only from the call  *)
(* on top of the stack, and only the call on top leaves.  Nothing is said  *)
(* of how jobs come to be: parent may change in any way.                   *)
(***************************************************************************)
EXTENDS Naturals, Sequences

CONSTANTS Jobs, GroupLocks

VARIABLES chain,   \* GroupLocks -> Seq(Jobs), the calls inside the lock
          parent   \* Jobs -> the job in whose method a call was made

Top(l) == chain[l][Len(chain[l])]

Init == chain = [l \in GroupLocks |-> <<>>]

EnterFromOutside(l, j) ==
  /\ chain[l] = <<>>
  /\ chain' = [chain EXCEPT ![l] = <<j>>]

EnterNested(l, j) ==
  /\ chain[l] # <<>>
  /\ parent[j] = Top(l)
  /\ chain' = [chain EXCEPT ![l] = Append(@, j)]

LeaveTop(l) ==
  /\ chain[l] # <<>>
  /\ chain' = [chain EXCEPT ![l] = SubSeq(@, 1, Len(@) - 1)]

Next ==
  \E l \in GroupLocks :
    \/ \E j \in Jobs : EnterFromOutside(l, j) \/ EnterNested(l, j)
    \/ LeaveTop(l)

Spec == Init /\ [][Next]_chain

=============================================================================
