------------------------------ MODULE Session ------------------------------
(***************************************************************************)
(* What the handshake of two routers promises: whoever asks for a           *)
(* connection takes at most one of the answers to it, each answer is taken  *)
(* by the attempt it was given to, and nothing that is delayed, repeated or *)
(* out of date makes anybody take an answer to somebody else.               *)
(***************************************************************************)
VARIABLES
  waiting,      \* the attempts that have no answer yet
  requests,     \* the attempts that may still be answered
  offers,       \* pairs of an attempt and an answer that may still be taken
  sessions      \* pairs of an attempt and the answer it took

vars == <<waiting, requests, offers, sessions>>

\* Names that are in use in a set of pairs.
NamesIn(pairs) == {p[1] : p \in pairs} \cup {p[2] : p \in pairs}

InUse == waiting \cup requests \cup NamesIn(offers) \cup NamesIn(sessions)

\* Requests and offers are lost, and forgotten, at any time.
Fading == requests' \subseteq requests /\ offers' \subseteq offers

Init == waiting = {} /\ requests = {} /\ offers = {} /\ sessions = {}

Ask(a) ==
  /\ a \notin InUse
  /\ waiting' = waiting \cup {a}
  /\ requests' = requests \cup {a}
  /\ UNCHANGED <<offers, sessions>>

Offer(a, b) ==
  /\ a \in requests
  /\ b \notin InUse
  /\ offers' = offers \cup {<<a, b>>}
  /\ requests' \subseteq requests
  /\ UNCHANGED <<waiting, sessions>>

Take(a, b) ==
  /\ a \in waiting
  /\ <<a, b>> \in offers
  /\ waiting' = waiting \ {a}
  /\ sessions' = sessions \cup {<<a, b>>}
  /\ Fading

End(a) ==
  /\ waiting' = waiting \ {a}
  /\ sessions' = {s \in sessions : s[1] # a}
  /\ Fading

Fade == Fading /\ UNCHANGED <<waiting, sessions>>

Next ==
  \/ \E a \in waiting' : Ask(a)
  \/ \E o \in offers' : Offer(o[1], o[2])
  \/ \E o \in offers : Take(o[1], o[2])
  \/ \E a \in waiting \cup NamesIn(sessions) : End(a)
  \/ Fade

Spec == Init /\ [][Next]_vars
=============================================================================
