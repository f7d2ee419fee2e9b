--------------------------- MODULE MCArticleTimeline ---------------------------
(***************************************************************************)
(* A small law for TLC: articles one and two can be drafted or added by an *)
(* amendment, two documents amend them on any of three days, in any order. *)
(***************************************************************************)
EXTENDS ArticleTimeline, TLC

CONSTANTS one, two, first, second, shall, may, null, law, source

MCArticles == {one, two}
MCAmendments == {first, second}
MCSymmetry == Permutations(MCAmendments)
MCWords == {shall, may}

MCDraftTexts == {<<shall>>, <<shall, may>>}

Op(type, text, phrase) == [type |-> type, text |-> text, phrase |-> phrase]

On(a, ops) == [NoOps EXCEPT ![a] = ops]

\* A whole-text replacement and a renumbering, an addition, a replaced phrase in
\* one article with the repeal of the other.
MCContents ==
  { On(one, <<Op("REPLACE", <<may>>, null), Op("RENUMBER", <<>>, null)>>),
    On(two, <<Op("ADD", <<shall>>, null)>>),
    [On(one, <<Op("REPLACE", <<may>>, shall)>>) EXCEPT ![two] = <<Op("REPEAL", <<>>, null)>>] }
=============================================================================
