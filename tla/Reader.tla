------------------------------- MODULE Reader --------------------------------
(***************************************************************************)
(* The reader of list.c.  It works in place: text is a copy of the         *)
(* program, lists are cut out of it by writing NUL over the bracket that   *)
(* closes them, and a name or string is a pointer into the text.  The      *)
(* character after an identifier may still be needed, so NUL is written    *)
(* over it only when the next identifier or the end of the list has been   *)
(* read (last, lastidentend in the code).                                  *)
(*                                                                         *)
(* A list under construction is the sequence of its elements: the place v  *)
(* that the code appends to is always its end.  frames holds the calls of  *)
(* actual_read, innermost last.  One action is one round of its loop, or   *)
(* its return.  Places are counted from 1.                                 *)
(***************************************************************************)
EXTENDS Lists, SequencesExt, FiniteSets

CONSTANTS
  Programs,     \* for each text that is read, the programs it may contain
  Chars,        \* characters
  Text(_),      \* a program as it is written, without the NUL at its end
  Indices       \* how many numbers atfile has for the texts

ASSUME ProgramsAssumption ==
  Len(Programs) \in Nat /\ DOMAIN Programs = 1..Len(Programs)
ASSUME CharsAssumption == {NUL, NL, "tab", "_", Backslash, Quote, "'"} \subseteq Chars
ASSUME TextAssumption  ==
  \A i \in DOMAIN Programs : \A p \in Programs[i] : Text(p) \in Seq(Chars \ {NUL})
ASSUME IndexAssumption == Indices \in Nat \ {0}

VARIABLES
  sources,      \* the SourceFile list: the programs read, by number
  atfile,       \* the number of the last one
  text,         \* the copy that is being read
  frames,       \* the calls of actual_read
  result,       \* what it returned, with pointers into the text
  phase         \* "idle", "reading", "done" or "failed"

vars == <<sources, atfile, text, frames, result, phase>>

Program  == sources[Len(sources)]
Original == Append(Text(Program), NUL)

\* s is where the call reads, head is groupb and last lastidentend, both 0
\* for NULL; end, which the code does not keep, is where its text ends.
Call(s, at, curly, end) ==
  [s |-> s, at |-> at, curly |-> curly, end |-> end,
   items |-> << >>, head |-> 0, last |-> 0]

TypeOK ==
  /\ Len(sources) <= Len(Programs)
  /\ atfile \in 0..(Indices - 1)
  /\ phase \in {"idle", "reading", "done", "failed"}
  /\ phase = "reading" <=> frames # << >>
  /\ \A i \in 1..Len(frames) :
       /\ frames[i].s \in 1..frames[i].end
       /\ frames[i].end \in 1..Len(text)
       /\ frames[i].head \in 0..Len(frames[i].items)
       /\ frames[i].last \in 0..frames[i].s

Init == /\ sources = << >> /\ atfile = 0
        /\ text = << >> /\ frames = << >> /\ result = << >>
        /\ phase = "idle"

-----------------------------------------------------------------------------
Blank    == {" ", "tab", NL}
Boundary == Blank \cup Closers \cup {";", "#"}
Digit    == {"0", "5"}

First(t, i, chars) == Min({j \in i..Len(t) : t[j] \in chars})
Cut(t, i)          == [t EXCEPT ![i] = NUL]
StringAt(t, i)     == SubSeq(t, i, First(t, i, {NUL}) - 1)

Top == frames[Len(frames)]
Here == text[Top.s]
WordEnd(t, i) == First(t, i, Boundary \cup {NUL})
CommentEndPlusOne(t, i) == First(t, i, {NL, NUL}) + 1
CommentEnd(t, i) == First(t, i, {NL, NUL})

Continue(frame) ==
  /\ frames' = [frames EXCEPT ![Len(frames)] = frame]
  /\ UNCHANGED <<sources, atfile, result, phase>>

\* insert_part: append an element, where a group may begin.
Inserted(frame, item, s) ==
  [frame EXCEPT !.s = s, !.items = Append(@, item),
                !.head = IF @ = 0 /\ item.kind # "list" THEN Len(frame.items) + 1
                                                        ELSE @]

\* compiler_error: the process ends.
Fail == /\ phase' = "failed" /\ frames' = << >>
        /\ UNCHANGED <<sources, atfile, text, result>>

\* read_string, read_file and read_stdin: enter the text in the list of
\* sources, copy and number it.
Unnumbered(n) == n
Numbered(n)   == (n + 1) % Indices
Read(p) ==
  /\ phase \in {"idle", "done"}
  /\ sources' = Append(sources, p)
  /\ atfile' = Numbered(atfile)
  /\ text' = Append(Text(p), NUL)
  /\ frames' = <<Call(1, 1, FALSE, Len(text'))>>
  /\ result' = << >>
  /\ phase' = "reading"

Skip ==
  /\ phase = "reading" /\ Here \in Blank \cup Closers
  /\ Continue([Top EXCEPT !.s = @ + 1])
  /\ UNCHANGED text

Comment ==
  /\ phase = "reading" /\ Here = "#"
  /\ Continue([Top EXCEPT !.s = CommentEnd(text, @)])
  /\ UNCHANGED text

-----------------------------------------------------------------------------
\* The bracket that closes a list, or 0.  Brackets in comments are skipped,
\* and whatever ends a comment.  The loop that is to skip strings ends at once.
NothingSkipped(t, i) == {}
Skipped(t, i) ==
  {j \in i..Len(t) : \E k \in i..j :
     t[k] = "#" /\ \A m \in k..(j - 1) : t[m] \notin {NL, NUL}}
Closer(t, i) ==
  LET Code     == (i..Len(t)) \ Skipped(t, i)
      To(j, S) == Cardinality({m \in Code : m <= j /\ t[m] \in S})
      Ends == {j \in Code :
                 t[j] = NUL \/ (t[j] \in Closers /\ To(j, Closers) = To(j, Openers))}
  IN  IF Ends = {} \/ t[Min(Ends)] = NUL THEN 0 ELSE Min(Ends)

Open ==
  /\ phase = "reading" /\ Here \in Openers
  /\ LET close == Closer(text, Top.s)
     IN IF close = 0 THEN Fail
        ELSE /\ text' = Cut(text, close)
             /\ frames' = Append([frames EXCEPT ![Len(frames)].s = close + 1],
                                 Call(Top.s + 1, Top.s, Here = "{", close))
             /\ UNCHANGED <<sources, atfile, result, phase>>

\* The end of the text: the last identifier is terminated.  A list becomes an
\* element of the one around it, { } with "scope" at its beginning.
Unterminated(t, last) == t
Terminated(t, last)   == IF last = 0 THEN t ELSE Cut(t, last)
Scope(at) == [kind |-> "static", at |-> at, value |-> <<"scope">>]

Return ==
  /\ phase = "reading" /\ Here = NUL
  /\ text' = Terminated(text, Top.last)
  /\ UNCHANGED <<sources, atfile>>
  /\ IF Len(frames) = 1
     THEN /\ result' = Top.items
          /\ phase' = "done"
          /\ frames' = << >>
     ELSE LET around == frames[Len(frames) - 1]
              name   == IF Top.curly THEN <<Scope(Top.at)>> ELSE << >>
          IN /\ frames' = Append(SubSeq(frames, 1, Len(frames) - 2),
                                 Inserted(around, List(name \o Top.items, Top.at),
                                          around.s))
             /\ UNCHANGED <<result, phase>>

\* What groupb began becomes a list.
Semicolon ==
  /\ phase = "reading" /\ Here = ";"
  /\ IF Top.head = 0 THEN Fail
     ELSE /\ Continue([Top EXCEPT !.s = @ + 1, !.items = Group(@, Top.head),
                                  !.head = 0])
          /\ UNCHANGED text

-----------------------------------------------------------------------------
\* The quote that ends a string literal or a part of it, and that which ends
\* the last part; 0 when there is none.
PartEnd(t, i) ==
  LET j == Min({k \in i..Len(t) : t[k] = NUL \/ (t[k] = Quote /\ t[k - 1] # Backslash)})
  IN IF t[j] = NUL THEN 0 ELSE j

NextPart(t, j) == Min({k \in (j + 1)..Len(t) : t[k] \notin Blank \cup {Backslash}})
StringEnd(t, i) ==
  LET end[k \in 1..Len(t)] ==
        LET j == PartEnd(t, k) IN
        IF j = 0 \/ t[j + 1] # Backslash THEN j
        ELSE IF t[NextPart(t, j)] # Quote THEN 0 ELSE end[NextPart(t, j) + 1]
  IN  end[i]

\* prepare_string: the characters a literal stands for, or Wrong.
Wrong == <<"wrong">>
Control == [c \in {Backslash, Quote, "'", "n", "t"} |->
             CASE c = "n" -> NL [] c = "t" -> "tab" [] OTHER -> c]

Before(c, rest) == IF rest = Wrong THEN Wrong ELSE <<c>> \o rest
Unescaped(c, quote) ==
  LET from[i \in 1..(Len(c) + 1)] ==
        IF i > Len(c) THEN << >>
        ELSE IF c[i] = quote
        THEN LET next == {j \in (i + 1)..Len(c) : c[j] = quote}
             IN  IF next = {} THEN Wrong ELSE from[Min(next) + 1]
        ELSE IF c[i] # Backslash THEN Before(c[i], from[i + 1])
        ELSE IF i = Len(c) \/ c[i + 1] \notin DOMAIN Control THEN Wrong
        ELSE Before(Control[c[i + 1]], from[i + 2])
  IN  from[1]

\* It writes them over the literal.
Prepared(t, i, c) ==
  [j \in 1..Len(t) |-> IF j \in i..(i + Len(c) - 1) THEN c[j - i + 1]
                       ELSE IF j = i + Len(c) THEN NUL ELSE t[j]]

String ==
  /\ phase = "reading" /\ Here = Quote
  /\ LET begin == Top.s + 1
         end   == StringEnd(text, begin)
         chars == Unescaped(SubSeq(text, begin, end - 1), Quote)
     IN IF end = 0 \/ chars = Wrong THEN Fail
        ELSE /\ text' = Prepared(Cut(text, end), begin, chars)
             /\ Continue(Inserted(Top, [kind |-> "string", at |-> Top.s,
                                        value |-> begin], end + 1))

\* More than one character is too long; for '' the code looks at what stands
\* behind the literal instead, and takes it where its text ends.
Char ==
  /\ phase = "reading" /\ Here = "'"
  /\ LET begin == Top.s + 1
         end   == First(text, begin, {"'", NUL})
         chars == Unescaped(SubSeq(text, begin, end - 1), "'")
         read  == Prepared(Cut(text, end), begin, chars)
     IN IF text[end] = NUL \/ chars = Wrong \/ read[begin + 1] # NUL THEN Fail
        ELSE /\ text' = read
             /\ Continue(Inserted(Top, Literal("char", chars, Top.s), end + 1))

-----------------------------------------------------------------------------
IsNumber(t, i) == t[i] \in Digit \/ (t[i] = "-" /\ t[i + 1] \notin Boundary \cup {NUL})
NumberAt(t, i, at) == Literal("int", SubSeq(t, i, WordEnd(t, i) - 1), at)

Number ==
  /\ phase = "reading" /\ IsNumber(text, Top.s)
  /\ Continue(Inserted(Top, NumberAt(text, Top.s, Top.s), WordEnd(text, Top.s)))
  /\ UNCHANGED text

\* transform_identifier: a:b:c is cut at its last colon, then a:b, and so on
\* down to a colon that has no name on one of its sides.
Pointer(i, at) == [kind |-> "ident", at |-> at, value |-> i]
MembName(at) == [kind |-> "static", at |-> at, value |-> <<"memb">>]
Colons(t, i) == {j \in i..(WordEnd(t, i) - 1) : t[j] = ":"}
CutColons(t, i) ==
  {j \in Colons(t, i) : \A k \in Colons(t, i) : k >= j =>
     k # i /\ t[k + 1] \notin Boundary \cup {NUL, ":"}}
LastColon(t, i) == {j \in CutColons(t, i) : \A k \in CutColons(t, i) : k <= j}
Separators(t, i) == CutColons(t, i)

CutAll(t, S) == [k \in 1..Len(t) |-> IF k \in S THEN NUL ELSE t[k]]
Member(t, object, colon, at) ==
  List(<<MembName(at), object,
         IF IsNumber(t, colon + 1) THEN NumberAt(t, colon + 1, at)
                                   ELSE Pointer(colon + 1, at)>>, at)
\* upto is the name that ends before j.
Transformed(t, i, at) ==
  LET colons == Separators(t, i)
      done   == CutAll(t, colons)
      upto[j \in i..Len(t)] ==
        LET before == {k \in colons : k < j}
        IN  IF before = {} THEN Pointer(i, at)
            ELSE Member(done, upto[Max(before)], Max(before), at)
  IN  [text |-> done, item |-> upto[WordEnd(t, i)]]

\* In names, - is _.  The identifier before this one is terminated.
Underscored(t, i, j) ==
  [k \in 1..Len(t) |-> IF k \in i..j /\ t[k] = "-" THEN "_" ELSE t[k]]
ThisOne(last, end) == end
PreviousOne(last, end) == last

Identifier ==
  /\ phase = "reading"
  /\ Here \notin Blank \cup Closers \cup Openers \cup {NUL, Quote, "'", "#", ";"}
  /\ ~IsNumber(text, Top.s)
  /\ LET end  == WordEnd(text, Top.s)
         name == Transformed(Terminated(Underscored(text, Top.s, end),
                                        PreviousOne(Top.last, end)), Top.s, Top.s)
     IN /\ text' = name.text
        /\ Continue([Inserted(Top, name.item, end) EXCEPT !.last = end])

-----------------------------------------------------------------------------
Next ==
  \/ Len(sources) < Len(Programs) /\ \E p \in Programs[Len(sources) + 1] : Read(p)
  \/ Skip \/ Comment \/ Open \/ Return \/ Semicolon \/ String \/ Char
  \/ Number \/ Identifier

Spec == Init /\ [][Next]_vars
-----------------------------------------------------------------------------
\* What a call has yet to read is as it was written, up to where its list was
\* cut out (list.c:637, 758-761).
UnreadIsIntact ==
  \A i \in 1..Len(frames) :
    LET call == frames[i]
    IN /\ text[call.end] = NUL
       /\ \A j \in call.s..(call.end - 1) : text[j] = Original[j]

\* In a list that was cut out every comment ends before the list does: the
\* search for a bracket, which skips what ends a comment even if it is the NUL
\* of the list, stays inside of the list (list.c:622-631).
CommentsEnd ==
  \A i \in 2..Len(frames) :
    LET call == frames[i]
    IN  \A j \in call.s..(call.end - 1) :
          text[j] = "#" => \E k \in j..(call.end - 1) : text[k] = NL

\* get_loc_info: it counts the lines up to the place.
get_source_file(idx) == IF idx = 0 THEN << >> ELSE sources[idx]
LinesBefore(t, at) == {i \in 1..at : t[i] = NL}
get_loc_info(idx, at) ==
  LET t     == Text(get_source_file(idx))
      lines == LinesBefore(t, at)
  IN [line |-> 1 + Cardinality(lines), chr |-> at - 1 - Max(lines \cup {0})]

\* The line of a place in a text, and how much of the line comes before it.
Line(t, at)   == 1 + Cardinality({j \in 1..(at - 1) : t[j] = NL})
Column(t, at) ==
  Cardinality({j \in 1..(at - 1) : \A k \in j..(at - 1) : t[k] # NL})

\* The elements of what was read, those of its lists, and so on.
Inner(elements) == UNION {Range(e.value) : e \in {x \in elements : x.kind = "list"}}
Elements ==
  LET deep[n \in 0..Len(text)] ==
        IF n = 0 THEN Range(result) ELSE Inner(deep[n - 1])
  IN  UNION {deep[n] : n \in 0..Len(text)}

\* What a pointer into a word or behind a quote stands for in the program as
\* it is written: a name ends at its word's next separator or with the word.
NameEnd(t, i, at) == Min({j \in Separators(t, at) : j >= i} \cup {WordEnd(t, at)})
Named(t, i, at) ==
  [k \in 1..(NameEnd(t, i, at) - i) |->
     IF t[i + k - 1] = "-" THEN "_" ELSE t[i + k - 1]]
Says(t, e) ==
  IF e.kind = "ident" THEN Named(t, e.value, e.at)
  ELSE Unescaped(SubSeq(t, e.value, StringEnd(t, e.value) - 1), Quote)

\* Reading in place, with the terminators written late and lists cut out before
\* they are read, leaves behind every pointer what an unaltered copy of the
\* program has there: no terminator is missing, and none was written over a
\* part of another name or string (list.c:637, 690-691, 757-770).
NamesAreWhole ==
  phase = "done" =>
    \A e \in Elements :
      e.kind \in {"ident", "string"} => StringAt(text, e.value) = Says(Original, e)

\* Until atfile wraps (list.c:342), every element of a program is reported at
\* its line and character of the file it was read from.
Located ==
  phase = "done" /\ Len(sources) < Indices
  => /\ get_source_file(atfile) = Program
     /\ \A e \in Elements :
          get_loc_info(atfile, e.at) = [line |-> Line(Text(Program), e.at),
                                        chr  |-> Column(Text(Program), e.at)]
=============================================================================
