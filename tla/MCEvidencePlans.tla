--------------------------- MODULE MCEvidencePlans ---------------------------
EXTENDS EvidencePlans

CONSTANTS p1, p2, f1, f2, t1, t2, k1, k2, k3

\* Three drafted passages: what two sections can look like.
DraftCatalogs ==
  LET reusable(r) == [section |-> "reusable", refs |-> r]
      adjust(r) == [section |-> "needs_adjustment", refs |-> r]
      of(a, b, c) ==
        [k \in Keys |-> IF k = k1 THEN a ELSE IF k = k2 THEN b ELSE c]
  IN  {of(reusable({p1}), reusable({p2, f1}), adjust({f2})),
       of(reusable({p1}), adjust({f1}), adjust({f2, p2})),
       of(reusable({p1, f1}), reusable({p2}), reusable({p1, p2, f2}))}

\* Every mixture of outcomes on the two sides of two tasks.
TrialIndexes ==
  [reference : [{t1, t2} -> {{p1}, {f1}, {p1, f1}}],
   candidate : [{t1, t2} -> {{p2}, {f2}, {p2, f2}}]]

FoundPassages ==
  {{}} \union
  {{[from |-> {}, section |-> s, refs |-> r]} :
     s \in Sections, r \in {{}, {p1, f2}, {f1}}}

Name(w, form) == [words |-> w, form |-> form]

CandidateNames ==
  {Name(<<"b">>, 1), Name(<<"b">>, 2), Name(<<"b", "b">>, 1)}

GroupNames == {<<"a">>, <<"a", "b">>}

ProbeAbsences == {{}, {"hooks"}, {"compaction"}, {"plugins", "memory"}}

ClaimedStatuses == {"recovered", "mixed"}
=============================================================================
