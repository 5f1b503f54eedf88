------------------------- MODULE MCInstitutionBridge -------------------------
(* A small instance of InstitutionBridge.                                   *)
EXTENDS InstitutionBridge

Rule(actions, kinds, irreversible) ==
  [actions |-> actions, kinds |-> kinds, requiresReview |-> FALSE,
   allowsIrreversible |-> irreversible]

\* Rules that overlap on deletions and disagree on irreversible ones.
MCRules ==
  { Rule({"write"}, {"none"}, FALSE), Rule({"delete", "write"}, {"none"}, TRUE),
    Rule({"delete"}, {"none", "notification"}, FALSE) }

Authority(actions, level, irreversible, refs) ==
  [actions |-> actions, kinds |-> {"none"}, maxLevel |-> level,
   irreversible |-> irreversible, refs |-> refs]

MCAuthorities ==
  { Authority({"write"}, "medium", FALSE, <<"clerk">>),
    Authority({"write", "delete"}, "medium", FALSE, <<>>),
    Authority({"write", "delete"}, "medium", TRUE, <<"officer", "deputy">>),
    Authority({"write", "delete"}, "critical", TRUE, <<"board">>) }

MCFacts ==
  [action : {"write", "delete"}, kind : {"none"}, level : {"medium", "high"},
   reversibility : Reversibility]
    \cup {[action |-> "delete", kind |-> "notification", level |-> "low",
           reversibility |-> "reversible"]}
==============================================================================
