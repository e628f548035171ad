----------------------------- MODULE Allocator ------------------------------
(***************************************************************************)
(* What an allocator promises its client (README.md:18-26 of "Memory       *)
(* Allocator C"), without blocks, headers or regions: a request is         *)
(* answered with a part of memory that is large enough and that nobody     *)
(* else holds, or refused; what is held stays as it is until it is given   *)
(* back.                                                                   *)
(***************************************************************************)
EXTENDS Integers

CONSTANTS Addresses, Sizes

VARIABLES
  phase,   \* "off", "ready" or "busy" with a request
  wanted,  \* the size of the request being answered
  given    \* the addresses a client holds |-> the bytes it may use there

vars == <<phase, wanted, given>>

Part(a, n) == a .. (a + n - 1)

Nothing == [a \in {} |-> 0]

TypeInvariant ==
  /\ phase \in {"off", "ready", "busy"}
  /\ wanted \in Sizes \cup {0}
  /\ DOMAIN given \subseteq Addresses /\ given \in [DOMAIN given -> Sizes]

Init == phase = "off" /\ wanted = 0 /\ given = Nothing

Open == /\ phase = "off"
        /\ phase' = "ready"
        /\ UNCHANGED <<wanted, given>>

Request(n) == /\ phase = "ready"
              /\ phase' = "busy" /\ wanted' = n
              /\ UNCHANGED given

Answer == phase = "busy" /\ phase' = "ready" /\ wanted' = 0

Grant(a) == /\ Answer
            /\ a \notin DOMAIN given
            /\ \A b \in DOMAIN given : Part(a, wanted) \cap Part(b, given[b]) = {}
            /\ given' = [b \in DOMAIN given \cup {a} |->
                           IF b = a THEN wanted ELSE given[b]]

Refuse == Answer /\ UNCHANGED given

Release(a) == /\ phase = "ready" /\ a \in DOMAIN given
              /\ given' = [b \in DOMAIN given \ {a} |-> given[b]]
              /\ UNCHANGED <<phase, wanted>>

Close == /\ phase = "ready"
         /\ phase' = "off" /\ given' = Nothing
         /\ UNCHANGED wanted

Next == \/ Open \/ Close \/ Refuse
        \/ \E n \in Sizes : Request(n)
        \/ \E a \in Addresses : Grant(a)
        \/ \E a \in DOMAIN given : Release(a)

Spec == Init /\ [][Next]_vars

(* No two parts that are held at the same time share a byte.               *)
HeldApart ==
  \A a, b \in DOMAIN given :
    a # b => Part(a, given[a]) \cap Part(b, given[b]) = {}

=============================================================================
