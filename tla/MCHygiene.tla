----------------------------- MODULE MCHygiene -----------------------------
(* Small corpora for TLC. *)
EXTENDS Hygiene, TLC

CONSTANT ses  \* one conversation

Wrote(kind, rank, session) == [kind |-> kind, rank |-> rank, session |-> session]

\* Two decisions of one conversation; a person's decision and an agent's
\* episode of another; an open loop beside what the watcher made of it.
MCCorpora == {<<Wrote("decision", 1, ses), Wrote("decision", 1, ses)>>,
              <<Wrote("decision", 2, None), Wrote("episode", 1, ses)>>,
              <<Wrote("task", 1, ses), Wrote("task", 0, None)>>}

MCWrites == {Wrote("decision", 1, ses), Wrote("episode", 0, None)}

Symmetric == Permutations(Workers) \cup Permutations(Reviewers) \cup Permutations(Jobs)
=============================================================================
