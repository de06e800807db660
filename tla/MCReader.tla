------------------------------ MODULE MCReader -------------------------------
\* Instances of Reader: every program of a few tokens, read between small ones,
\* and what quoting it builds.
EXTENDS Quoter

Tokens == {"(", ")", "{", ";", "word", "dashed", "-", "member", "element",
           "number", "negative", "char", "string", "parts", "comment"}
\* A program with deeper nesting has room for fewer kinds of words.
Nested == {"(", "}", ";", "word"}
Quotable == {"(", ")", "quasiunquote", "word"}
\* A comment that the end of the text ends.
Remarked == {Append(p, "remark") : p \in BoundedSeq({"word", "number", ";"}, 2)}
\* Literals without a character, at the end of a list and elsewhere.
Emptied == BoundedSeq({"(", ")", "empty", "word", ";"}, 4)

Full  == BoundedSeq(Tokens, 4) \cup BoundedSeq(Nested, 6)
           \cup BoundedSeq(Quotable, 6) \cup Remarked \cup Emptied
Small == {<<"word">>, <<"comment", "number">>}

Session == <<Small, Full, Small, {<<"word">>}>>

Characters == {NUL, NL, "tab", " ", "(", ")", "{", "}", ";", "#", "\"", "'", "\\", ":",
               "-", "_", "0", "5", "a", "b", "c", "n", "quasiunquote"}

\* Strings that hold a bracket or the beginning of a comment.
WithBrackets == <<BoundedSeq({"(", ")", "word", "bracket", "hash"}, 3)>>
==============================================================================
