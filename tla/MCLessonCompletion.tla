------------------------- MODULE MCLessonCompletion -------------------------
(* Two lessons of a course and a lesson outside it, for one user.          *)
EXTENDS LessonCompletion, TLC

CONSTANTS l1, l2, l3, w1, w2, w3

MCFirstWords == (l1 :> {w1}) @@ (l2 :> {w2}) @@ (l3 :> {})
\* One lesson with one word, no author.
MCOneLesson == l1 :> {w1}

MCNewWords   == {<<l1, w3>>}

\* No action tells one slot from another.
Symmetry == Permutations(Requests)
=============================================================================
