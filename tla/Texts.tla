------------------------------- MODULE Texts --------------------------------
(***************************************************************************)
(* Go's strings package, for the names and references the code takes       *)
(* apart: a text is a sequence of marks and words.                         *)
(***************************************************************************)
EXTENDS Naturals, Sequences, SequencesExt

TrimLeft(text, cut) ==
    LET kept == {i \in DOMAIN text : text[i] \notin cut}
    IN  IF kept = {} THEN <<>>
        ELSE SubSeq(text, CHOOSE i \in kept : \A j \in kept : i <= j, Len(text))
Trim(text, cut) == Reverse(TrimLeft(Reverse(TrimLeft(text, cut)), cut))

WithoutPrefix(text, prefix) ==
    IF IsPrefix(prefix, text) THEN SubSeq(text, Len(prefix) + 1, Len(text)) ELSE text
WithoutSuffix(text, suffix) == Reverse(WithoutPrefix(Reverse(text), Reverse(suffix)))

\* What is before the first mark, after the last one or before the last one;
\* the whole text when there is none.
BeforeFirst(text, mark) ==
    IF Contains(text, mark) THEN SubSeq(text, 1, SelectInSeq(text, LAMBDA c : c = mark) - 1) ELSE text
AfterLast(text, mark) == Reverse(BeforeFirst(Reverse(text), mark))
BeforeLast(text, mark) ==
    IF Contains(text, mark) THEN SubSeq(text, 1, Len(text) - Len(AfterLast(text, mark)) - 1) ELSE text

\* ReplaceAllString of "[^...]+" by one dash.
Dashed(text, keep) ==
    LET Starts(i) == text[i] \in keep \/ i = 1 \/ text[i - 1] \in keep
        heads == SelectSeq([i \in DOMAIN text |-> i], Starts)
    IN  [j \in DOMAIN heads |-> IF text[heads[j]] \in keep THEN text[heads[j]] ELSE "-"]
=============================================================================
