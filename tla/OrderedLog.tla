----------------------------- MODULE OrderedLog -----------------------------
(***************************************************************************)
(* What the ordered write route promises, with nothing of how it keeps the *)
(* promise.  A request either takes the next free position or takes none;  *)
(* the first position fixes the base above which all positions lie; and    *)
(* what a request is told about its own record agrees with the log at      *)
(* every later moment: "true" only once its record is held, "false" only   *)
(* when its record is not held and never will be.                          *)
(***************************************************************************)
EXTENDS Integers

CONSTANTS Writer,     \* the requests
          Key,        \* KeyOf[w] is the ledger key of request w
          KeyOf,
          ValueOf,    \* ValueOf[w] stands for the bytes request w wants stored
          Base        \* the reserves a ledger may be bound to

VARIABLES held,       \* the pairs <<position, request>> of the log
          base,       \* the reserve bound by the first position, 0 before it
          told        \* what each request has been told about its record

vars == <<held, base, told>>

Answers == {"none", "true", "false", "null"}

Init ==
    /\ held = {}
    /\ base = 0
    /\ told = [w \in Writer |-> "none"]

\* The record of request w, byte for byte, is held under its key.
Stored(w) ==
    \E h \in held : KeyOf[h[2]] = KeyOf[w] /\ ValueOf[h[2]] = ValueOf[w]

KeyFree(k) == \A h \in held : KeyOf[h[2]] # k

\* The first record binds the base; every other one takes the position above
\* the highest one held.  A request that was told "false" takes none.
Land(w) ==
    /\ told[w] # "false"
    /\ KeyFree(KeyOf[w])
    /\ \/ /\ base = 0
          /\ \E b \in Base : base' = b /\ held' = {<<b + 1, w>>}
       \/ /\ base # 0
          /\ \E top \in held :
                /\ \A h \in held : h[1] <= top[1]
                /\ held' = held \cup {<<top[1] + 1, w>>}
          /\ UNCHANGED base
    /\ UNCHANGED told

Tell(w, a) ==
    /\ told[w] = "none"
    /\ a = "true" => Stored(w)
    /\ a = "false" => \A h \in held : h[2] # w
    /\ told' = [told EXCEPT ![w] = a]
    /\ UNCHANGED <<held, base>>

Next == \E w \in Writer : Land(w) \/ \E a \in Answers \ {"none"} : Tell(w, a)

Spec == Init /\ [][Next]_vars
=============================================================================
