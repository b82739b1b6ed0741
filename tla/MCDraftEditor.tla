---------------------------- MODULE MCDraftEditor ----------------------------
\* One client goes between the settings page and a member's, the other stays on the
\* settings page and loads it after the first one has read the draft on the list.
\* Saves, publications and faults share a budget.  Values are interchangeable, and no
\* liveness is checked.
EXTENDS DraftEditor, TLC

CONSTANTS a, b, Budget

MCVisits(c) == {t \in Target : t.kind = "common" \/ (c = a /\ t.kind = "member")}
TheOtherStays == pages[b] # None /\ pages[b].kind = "common"
TheOtherIsLater ==
    drafts[a] = None => pages[a] = None /\ reads[b].at = "asked" /\ published = 0
Within == Cardinality({k \in Save : saves[k] # NoSave}) + published + faults <= Budget
Interchangeable == Permutations(Value)
=============================================================================
