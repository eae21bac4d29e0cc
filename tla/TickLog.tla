------------------------------ MODULE TickLog -------------------------------
(***************************************************************************)
(* What the tick recorder promises to the workers that decorate chunks: a  *)
(* single log of scheduled ticks, to which a worker adds a tick in one     *)
(* indivisible step, unless the log already holds one with the same key.   *)
(* The first tick of a key is the one that is saved.                       *)
(***************************************************************************)
EXTENDS Sequences

CONSTANTS
  Worker,   \* the threads
  Key,      \* (kind class, position, block without its state)
  Payload,    \* the t of a tick, the part of it that is not its key
  None      \* no tick

Tick == [key : Key, t : Payload]

VARIABLES
  log,      \* the ticks of the save, oldest first
  asked     \* asked[w]: the tick worker w is scheduling, or None

Init == log = << >> /\ asked = [w \in Worker |-> None]

Ask(w) == /\ asked[w] = None
          /\ \E tick \in Tick : asked' = [asked EXCEPT ![w] = tick]
          /\ UNCHANGED log

Holds(key) == \E i \in DOMAIN log : log[i].key = key

Answer(w) == /\ asked[w] # None
             /\ log' = IF Holds(asked[w].key) THEN log ELSE Append(log, asked[w])
             /\ asked' = [asked EXCEPT ![w] = None]

Next == \E w \in Worker : Ask(w) \/ Answer(w)

Spec == Init /\ [][Next]_<<log, asked>>
=============================================================================
