------------------------------ MODULE EntityIds -----------------------------
(***************************************************************************)
(* The generator of entity identifiers.  An identifier is the time in      *)
(* milliseconds followed by a payload: the free bits of the bytes 6 to 15  *)
(* of a UUIDv7, as digits, most significant first.  The version and variant*)
(* bits are the same in every identifier and the text is hexadecimal, so   *)
(* identifiers compare as these pairs do.  A process keeps the last one    *)
(* under a mutex, which makes a call of newUUIDv7 one step; a call whose   *)
(* source of randomness fails changes nothing.                             *)
(***************************************************************************)
EXTENDS Integers, Sequences, FiniteSetsExt

CONSTANTS Limits,    \* largest value of each digit: 15 for byte 6, 63 for byte 8, else 255
          MaxMillis  \* bound: the clock and the identifiers stay below it

VARIABLES clock,  \* time.Now().UnixMilli(), which may stand still or go back
          last,   \* uuidV7State.last
          set     \* uuidV7State.set

vars == <<clock, last, set>>

Digits == DOMAIN Limits
Payloads == {p \in [Digits -> 0..Max({Limits[i] : i \in Digits})] : \A i \in Digits : p[i] <= Limits[i]}

\* Variant: the carry out of a whole byte (byte 7) is lost, as it is when the
\* sum is compared after it has wrapped round.
CarriesInByte(payload, i) == i # 2 /\ payload[i] + 1 > Limits[i]

Carries(payload, i) == payload[i] + 1 > Limits[i]

\* Increments from the right up to the first digit that does not carry.
incrementUUIDv7Payload(payload) ==
    LET stop == {i \in Digits : ~Carries(payload, i)}
        first == IF stop = {} THEN 1 ELSE Max(stop)
    IN  [ok |-> stop # {},
         payload |-> [i \in Digits |-> IF i < first THEN payload[i] ELSE (payload[i] + 1) % (Limits[i] + 1)]]

Init == clock = 0 /\ last = [millis |-> 0, payload |-> [i \in Digits |-> 0]] /\ set = FALSE

Tick == clock' \in 0..MaxMillis /\ UNCHANGED <<last, set>>

\* newUUIDv7, given the bytes that the source of randomness would return.
newUUIDv7(random) ==
    LET next == incrementUUIDv7Payload(last.payload) IN
    IF ~set \/ clock > last.millis THEN [millis |-> clock, payload |-> random]
    ELSE IF next.ok THEN [millis |-> last.millis, payload |-> next.payload]
    ELSE [millis |-> last.millis + 1, payload |-> random]

Generate ==
    \E random \in Payloads :
        /\ newUUIDv7(random).millis <= MaxMillis
        /\ last' = newUUIDv7(random)
        /\ set' = TRUE
        /\ UNCHANGED clock

Next == Tick \/ Generate

Spec == Init /\ [][Next]_vars

-----------------------------------------------------------------------------
Less(a, b) ==
    \/ a.millis < b.millis
    \/ /\ a.millis = b.millis
       /\ \E i \in Digits : a.payload[i] < b.payload[i] /\ \A j \in 1..i-1 : a.payload[j] = b.payload[j]

\* Every identifier a process generates is greater than the one before, also
\* when the clock stands still or goes back and when a payload is used up; so
\* no two are the same.
IdsIncrease == set => \A random \in Payloads : Less(last, newUUIDv7(random))
=============================================================================
