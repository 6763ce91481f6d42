------------------------- MODULE OnboardingDelivery -------------------------
(***************************************************************************)
(* What the delivery of on-boarding values promises, without objects,      *)
(* suites, dates, answers or retries.  The host writes values, one key at  *)
(* a time.  Copies set out for the service, each for one user; a copy      *)
(* never holds anything but values the host wrote for the same key by      *)
(* then, older ones perhaps.  The service merges a copy into the profile   *)
(* of its user at most once, at any time, or refuses it.                   *)
(***************************************************************************)
EXTENDS Naturals

CONSTANTS UserIds, Keys, Values, NoValue

VARIABLES
    written,   \* written[k]: the values the host wrote for k so far
    latest,    \* latest[k]: the one it wrote last
    underway,  \* the copies that have set out and not arrived
    issued,    \* number of copies that ever set out
    profile    \* profile[u]: what the service holds of user u

vars == <<written, latest, underway, issued, profile>>

Map == [Keys -> Values \cup {NoValue}]

\* The maps made of values that were written for their key.
Genuine(w) == {m \in Map : \A k \in Keys : m[k] \in w[k] \cup {NoValue}}

Init ==
    /\ written = [k \in Keys |-> {}]
    /\ latest = [k \in Keys |-> NoValue]
    /\ underway = {}
    /\ issued = 0
    /\ profile = [u \in UserIds |-> [k \in Keys |-> NoValue]]

\* A copy of m sets out for user u.
SetOut(u, m) ==
    /\ issued' = issued + 1
    /\ underway' = underway \cup {[id |-> issued + 1, user |-> u, data |-> m]}

\* A value is written, and a copy of what is then the latest sets out, or not.
Write(k, v) ==
    /\ written' = [written EXCEPT ![k] = @ \cup {v}]
    /\ latest' = [latest EXCEPT ![k] = v]
    /\ (\E u \in UserIds : SetOut(u, latest')) \/ UNCHANGED <<issued, underway>>
    /\ UNCHANGED profile

Repeat(u, m) ==
    /\ m \in Genuine(written)
    /\ SetOut(u, m)
    /\ UNCHANGED <<written, latest, profile>>

Merge(c) ==
    /\ underway' = underway \ {c}
    /\ profile' = [profile EXCEPT ![c.user] =
          [k \in Keys |-> IF c.data[k] = NoValue THEN @[k] ELSE c.data[k]]]
    /\ UNCHANGED <<written, latest, issued>>

Refuse(c) ==
    /\ underway' = underway \ {c}
    /\ UNCHANGED <<written, latest, issued, profile>>

Next ==
    \/ \E k \in Keys, v \in Values : Write(k, v)
    \/ \E u \in UserIds, m \in Genuine(written) : Repeat(u, m)
    \/ \E c \in underway : Merge(c) \/ Refuse(c)

Spec == Init /\ [][Next]_vars

===========================================================================
