----------------------------- MODULE TextHistory -----------------------------
(***************************************************************************)
(* What the platform promises about legal texts, with no tables: for each  *)
(* article and each calendar day there is one text in force, or none yet.  *)
(* A step either enacts articles that had no text at all, or replaces the  *)
(* text of some articles from one effective day on and only to the end of  *)
(* the period it falls into.  Days before the effective day never change,  *)
(* and a text once in force is never withdrawn to "no text".               *)
(***************************************************************************)
EXTENDS Naturals

CONSTANTS Articles,   \* identities of articles
          Text,       \* the possible texts
          NoText,     \* "no text in force"
          LastDay     \* the calendar is 1..LastDay

VARIABLE force        \* force[a][d]: the text of article a in force on day d

Days == 1..LastDay

Init == force = [a \in Articles |-> [d \in Days |-> NoText]]

Silent(a) == \A d \in Days : force[a][d] = NoText

\* Article a has text t from day d on, and had none on any day.
Begins(a, d, t) ==
  /\ Silent(a)
  /\ force'[a] = [x \in Days |-> IF x < d THEN NoText ELSE t]

\* The text of article a becomes t on the days d, ..., e-1, all of which had the
\* same text before, as had the day before d; every other day is untouched.
Changes(a, d, e, t) ==
  /\ d - 1 \in Days
  /\ force[a][d] # NoText
  /\ \A x \in (d - 1)..(e - 1) : force[a][x] = force[a][d]
  /\ force'[a] = [x \in Days |-> IF d <= x /\ x < e THEN t ELSE force[a][x]]

Enact ==
  /\ DOMAIN force' = Articles
  /\ \A a \in Articles :
       \/ force'[a] = force[a]
       \/ \E d \in Days, t \in Text : Begins(a, d, t)

Amend(d) ==
  /\ DOMAIN force' = Articles
  /\ \A a \in Articles :
       \/ force'[a] = force[a]
       \/ \E t \in Text :
            Begins(a, d, t) \/ \E e \in (d + 1)..(LastDay + 1) : Changes(a, d, e, t)

Next == Enact \/ \E d \in Days : Amend(d)

Spec == Init /\ [][Next]_force
=============================================================================
