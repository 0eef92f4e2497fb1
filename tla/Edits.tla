------------------------------- MODULE Edits -------------------------------
(***************************************************************************)
(* What the read and edit tools do to the text of one file                 *)
(* (src/internal/mcp_tools/rw_tools.go): numbered lines out of read, the   *)
(* four ways to change a text, the four layers of search_replace, the      *)
(* hint after a search that found nothing and the preview after a change   *)
(* by lines.  A text is a sequence of characters.  The approval of a       *)
(* change and the file around it are in Approval and Manuscript.              *)
(***************************************************************************)
EXTENDS Integers, Sequences, SequencesExt, FiniteSets, FiniteSetsExt

CONSTANTS
  NL,         \* the newline
  Ascii,      \* the plain quote every variant is compared as
  Variants,   \* curly, corner and full-width quotes
  Letters,
  Blanks,     \* the letters that are blank
  Searches,   \* search texts a call may give
  Contents,   \* new contents a call may give
  DefaultEnd, \* end_line of a read that gives none, or 0 (2000)
  MaxLen      \* bound: characters of the file

ASSUME EditsConstants ==
  /\ Blanks \subseteq Letters
  /\ NL \notin Variants \cup Letters \cup {Ascii} /\ Ascii \notin Variants \cup Letters
  /\ DefaultEnd \in Nat \ {0} /\ MaxLen \in Nat

Chars == Letters \cup Variants \cup {Ascii, NL}

ASSUME EditsInputs == Searches \cup Contents \subseteq Seq(Chars)

VARIABLES
  text,  \* the file
  call,  \* the call of the model that is being executed
  reply  \* what the last call told the model

vars == <<text, call, reply>>

-----------------------------------------------------------------------------
\* Lines and characters

\* strings.Split(text, "\n") and strings.Join(lines, "\n").
Split(t) ==
  LET cuts == SetToSortSeq({0, Len(t) + 1} \cup {i \in DOMAIN t : t[i] = NL}, <)
  IN [i \in 1 .. Len(cuts) - 1 |-> SubSeq(t, cuts[i] + 1, cuts[i + 1] - 1)]

Join(lines) ==
  IF lines = << >> THEN << >>
  ELSE FoldLeft(LAMBDA t, line : t \o <<NL>> \o line, lines[1], Tail(lines))

Numbered(lines, from, to) == {<<i, lines[i]>> : i \in from .. to}

TrimRight(t) == SubSeq(t, 1, SelectLastInSeq(t, LAMBDA c : c # NL))
TrimLeft(t)  == Reverse(TrimRight(Reverse(t)))

\* strings.TrimSpace: blanks and newlines at both ends.
TrimSpace(t) ==
  LET full == {i \in DOMAIN t : t[i] \notin Blanks \cup {NL}}
  IN IF full = {} THEN << >> ELSE SubSeq(t, Min(full), Max(full))

\* normalizePunctuation: for finding only, the file keeps its quotes.
NormalizePunctuation(t) == [i \in DOMAIN t |-> IF t[i] \in Variants THEN Ascii ELSE t[i]]

\* The places where s stands in t, by their first character; strings.Index and
\* runeIndex take the first.
Places(t, s) == {i \in 1 .. Len(t) - Len(s) + 1 : SubSeq(t, i, i + Len(s) - 1) = s}

\* strings.Replace: the first place, or all from the left that do not overlap; an
\* empty s stands before every character and at the end.
ReplaceFirst(t, s, new) ==
  LET i == Min(Places(t, s)) IN SubSeq(t, 1, i - 1) \o new \o SubSeq(t, i + Len(s), Len(t))

ReplaceEvery(t, s, new) ==
  LET rest[i \in 1 .. Len(t) + 1] ==
        IF s = << >> THEN new \o (IF i > Len(t) THEN << >> ELSE <<t[i]>> \o rest[i + 1])
        ELSE IF i > Len(t) THEN << >>
        ELSE IF i \in Places(t, s) THEN new \o rest[i + Len(s)]
        ELSE <<t[i]>> \o rest[i + 1]
  IN rest[1]

Replace(t, s, new, every) == IF every THEN ReplaceEvery(t, s, new) ELSE ReplaceFirst(t, s, new)

-----------------------------------------------------------------------------
\* The hint

\* partialRatio: the share of the shorter text's characters that match at the best
\* offset in the longer one, in percent (texts are short: no two shares of theirs
\* have the same percent).
PartialRatio(a, b) ==
  LET short == IF Len(a) <= Len(b) THEN a ELSE b
      long  == IF Len(a) <= Len(b) THEN b ELSE a
      Match(i) == Cardinality({j \in DOMAIN short : short[j] = long[i + j]})
  IN IF short = << >> THEN IF long = << >> THEN 100 ELSE 0
     ELSE (100 * Max({Match(i) : i \in 0 .. Len(long) - Len(short)})) \div Len(short)

\* Mutant of FuzzyHint: a longer or shorter window keeps the length of the
\* search text.
FuzzyHintOneLength(search, t) ==
  LET lines == Split(t)
      w     == Len(Split(TrimSpace(search)))
      Windows(size) ==
        IF size <= 0 \/ size > Len(lines) THEN << >>
        ELSE [i \in 1 .. Len(lines) - size + 1 |-> [from |-> i, to |-> i + size - 1]]
      Score(win) == PartialRatio(search, Join(SubSeq(lines, win.from, win.to)))
      Better(best, win) ==
        IF Score(win) > best.score
        THEN [score |-> Score(win), from |-> win.from, to |-> win.from + w - 1] ELSE best
      best  == FoldLeft(Better, [score |-> 0, from |-> 1, to |-> w],
                        Windows(w) \o Windows(w + 2) \o Windows(w - 2)
                          \o Windows(w + 1) \o Windows(w - 1))
  IN IF best.score < 40 THEN {} ELSE {[from |-> best.from, to |-> best.to]}

\* fuzzyHint: windows as long as the search text first, then of two, minus two, one
\* and minus one lines more; a later window must score higher.  No range: nothing
\* in the file is like the search text.
FuzzyHint(search, t) ==
  LET lines == Split(t)
      w     == Len(Split(TrimSpace(search)))
      Windows(size) ==
        IF size <= 0 \/ size > Len(lines) THEN << >>
        ELSE [i \in 1 .. Len(lines) - size + 1 |-> [from |-> i, to |-> i + size - 1]]
      Score(win) == PartialRatio(search, Join(SubSeq(lines, win.from, win.to)))
      Better(best, win) ==
        IF Score(win) > best.score THEN [score |-> Score(win), from |-> win.from, to |-> win.to]
        ELSE best
      best  == FoldLeft(Better, [score |-> 0, from |-> 1, to |-> w],
                        Windows(w) \o Windows(w + 2) \o Windows(w - 2)
                          \o Windows(w + 1) \o Windows(w - 1))
  IN IF best.score < 40 THEN {} ELSE {[from |-> best.from, to |-> best.to]}

-----------------------------------------------------------------------------
\* Changes: the new text, or none and a hint.

Changed(t)    == [ok |-> TRUE, text |-> t, hint |-> {}]
NoChange(h)   == [ok |-> FALSE, text |-> << >>, hint |-> h]

\* Mutant of SearchReplace: the third layer rewrites the text it compared, so
\* every quote of the file becomes a plain one.
SearchReplaceNormalized(t, searchText, new, every) ==
  LET search  == TrimRight(searchText)
      trimmed == TrimSpace(search)
      plain   == NormalizePunctuation(t)
      likened == NormalizePunctuation(search)
  IN CASE Places(t, search) # {} -> Changed(Replace(t, search, new, every))
       [] Places(t, search) = {} /\ Places(t, trimmed) # {} ->
            Changed(Replace(t, trimmed, new, every))
       [] Places(t, search) = {} /\ Places(t, trimmed) = {} /\ Places(plain, likened) # {} ->
            Changed(Replace(plain, likened, new, every))
       [] OTHER -> NoChange(FuzzyHint(search, t))

\* Layer 1 exact, but for newlines at the end, 2 without the blanks around, 3 with
\* quotes made alike, 4 a hint.  Of newlines only, or of blanks that the file does not
\* hold, nothing is left: that is found before every character and at the end.
\* Layer 3 takes the characters of the file at the place it found.
SearchReplace(t, searchText, new, every) ==
  LET search  == TrimRight(searchText)
      trimmed == TrimSpace(search)
      like    == Places(NormalizePunctuation(t), NormalizePunctuation(search))
      found   == SubSeq(t, Min(like), Min(like) + Len(search) - 1)
  IN CASE Places(t, search) # {} -> Changed(Replace(t, search, new, every))
       [] Places(t, search) = {} /\ Places(t, trimmed) # {} ->
            Changed(Replace(t, trimmed, new, every))
       [] Places(t, search) = {} /\ Places(t, trimmed) = {} /\ like # {} ->
            Changed(Replace(t, found, new, every))
       [] OTHER -> NoChange(FuzzyHint(search, t))

LineRangeReplace(t, from, to, new) ==
  LET lines == Split(t)
  IN IF from > to \/ to > Len(lines) THEN NoChange({})
     ELSE Changed(Join(SubSeq(lines, 1, from - 1)
                       \o (IF new = << >> THEN << >> ELSE Split(new))
                       \o SubSeq(lines, to + 1, Len(lines))))

AppendTo(t, new) ==
  IF t = << >> THEN Changed(new) ELSE Changed(TrimRight(t) \o <<NL>> \o TrimLeft(new) \o <<NL>>)

ApplyChange(c, t) ==
  CASE c.op = "full_replace"       -> Changed(c.new)
    [] c.op = "append"             -> AppendTo(t, c.new)
    [] c.op = "search_replace"     ->
         IF c.search = << >> THEN NoChange({}) ELSE SearchReplace(t, c.search, c.new, c.all)
    [] c.op = "line_range_replace" -> LineRangeReplace(t, c.from, c.to, c.new)

\* linePreview: the lines from..to and one around, numbered.
LinePreview(t, from, to) ==
  LET lines == Split(t)
      first == IF from > 2 THEN from - 1 ELSE 1
      last  == IF to < Len(lines) THEN to + 1 ELSE Len(lines)
  IN Numbered(lines, first, last)

-----------------------------------------------------------------------------
\* Calls and replies

LineNumbers == 1 .. MaxLen + 1

Calls ==
  [op : {"read"}, from : LineNumbers, to : 0 .. MaxLen + 1]
  \cup [op : {"full_replace", "append"}, new : Contents]
  \cup [op : {"search_replace"}, search : Searches, new : Contents, all : BOOLEAN]
  \cup [op : {"line_range_replace"}, from : LineNumbers, to : LineNumbers, new : Contents]

NoCall == [op |-> "none"]

\* What the model is told: numbered lines of the file, those that were there before,
\* and the lines a hint names.
Told(what, shown, before, hint) ==
  [what |-> what, shown |-> shown, before |-> before, hint |-> hint]
Nothing == Told("nothing", {}, {}, {})

Init == text = << >> /\ call = NoCall /\ reply = Nothing

Ask(c) ==
  /\ call = NoCall
  /\ call' = c /\ reply' = Nothing
  /\ UNCHANGED text

Answer(t, r) == call' = NoCall /\ text' = t /\ reply' = r

\* ReadTool: an end past the last line is cut; an end before the start less one is a
\* slice out of range, which the turn survives as a failed call.
Read ==
  LET lines == Split(text)
      end   == IF call.to = 0 THEN DefaultEnd ELSE call.to
      last  == IF end > Len(lines) THEN Len(lines) ELSE end
  IN /\ call.op = "read"
     /\ Answer(text, IF call.from > Len(lines) \/ last < call.from - 1
                     THEN Told("failed", {}, {}, {})
                     ELSE Told("read", Numbered(lines, call.from, last), {}, {}))

\* A change the user allows; what would leave the text as it is asks nobody.
Edit ==
  LET change == ApplyChange(call, text)
      lines  == Len(SelectSeq(call.new, LAMBDA c : c = NL))
  IN /\ call.op \notin {"none", "read"}
     /\ change.ok
     /\ Len(change.text) <= MaxLen
     /\ Answer(change.text,
               IF call.op = "line_range_replace" /\ change.text # text
               THEN Told("changed", LinePreview(change.text, call.from, call.from + lines),
                         LinePreview(text, call.from, call.to), {})
               ELSE Told("changed", {}, {}, {}))

NotFound ==
  /\ call.op \notin {"none", "read"}
  /\ ~ ApplyChange(call, text).ok
  /\ Answer(text, Told("failed", {}, {}, ApplyChange(call, text).hint))

\* The user says no, or the change would pass the bound.
Refused ==
  /\ call.op \notin {"none", "read"}
  /\ ApplyChange(call, text).ok /\ ApplyChange(call, text).text # text
  /\ Answer(text, Nothing)

Next == (\E c \in Calls : Ask(c)) \/ Read \/ Edit \/ NotFound \/ Refused

Spec == Init /\ [][Next]_vars

-----------------------------------------------------------------------------
\* Properties

\* t2 is t with `count` places rewritten as new, each of which reads as the pattern
\* but for the kind of its quotes; everything else is as it was, in its order.
Rewritten(t, t2, pattern, new, count) ==
  LET Same(i, j) == i <= Len(t) /\ j <= Len(t2) /\ t[i] = t2[j]
      At(i, j)   == /\ i + Len(pattern) - 1 <= Len(t)
                    /\ NormalizePunctuation(SubSeq(t, i, i + Len(pattern) - 1))
                         = NormalizePunctuation(pattern)
                    /\ SubSeq(t2, j, j + Len(new) - 1) = new
      ok[i \in 1 .. Len(t) + 1, j \in 1 .. Len(t2) + 1, n \in 0 .. count] ==
        \/ i = Len(t) + 1 /\ j = Len(t2) + 1 /\ n = 0
        \/ Same(i, j) /\ ok[i + 1, j + 1, n]
        \/ /\ n > 0 /\ j + Len(new) <= Len(t2) + 1 /\ At(i, j)
           /\ ok[i + Len(pattern), j + Len(new), n - 1]
  IN ok[1, 1, count]

\* What is put into a text where nothing was searched for.
Inserted(t, t2, new, count) == Rewritten(t, t2, << >>, new, count)

\* An edit changes what it names and nothing else.  A search rewrites one place that
\* reads as the text searched for (or some, with replace_all), whatever layer found
\* it; an append keeps the lines of the file before what it adds; a change by lines
\* keeps the lines before and after the range, and tells what was there.  Two cases are
\* exempt.  A search of blanks and newlines only, which is not refused as an empty one
\* is (:308), may find nothing and so every place: it loses no character, but inserts
\* at the front or between all characters.  An append drops the empty lines at the end
\* of the file, which its description says is left as it is (:571)
\* (src/internal/mcp_tools/rw_tools.go:245, :292, :336, :519).
EditsLocal ==
  [][LET lines == Split(text)
         new   == Split(text')
     IN text' # text =>
          CASE call.op = "search_replace" ->
                 \E pattern \in {TrimRight(call.search), TrimSpace(call.search)},
                    n \in 1 .. (IF call.all THEN Len(text) + 1 ELSE 1) :
                   \/ pattern # << >> /\ Rewritten(text, text', pattern, call.new, n)
                   \/ TrimSpace(call.search) = << >> /\ Inserted(text, text', call.new, n)
            [] call.op = "append" ->
                 /\ text = << >> \/ IsPrefix(Split(TrimRight(text)), new)
                 /\ IsSuffix(TrimRight(TrimLeft(call.new)), TrimRight(text'))
            [] call.op = "line_range_replace" ->
                 /\ SubSeq(new, 1, call.from - 1) = SubSeq(lines, 1, call.from - 1)
                 /\ IsSuffix(SubSeq(lines, call.to + 1, Len(lines)), new)
                 /\ \A i \in call.from .. call.to : <<i, lines[i]>> \in reply'.before
                 /\ \A s \in reply'.before : s[2] = lines[s[1]]
            [] OTHER -> text' = call.new]_text

\* Every line number the model is told is that line of the file: what read and the
\* preview of a change show under a number stands there now, and the lines a hint
\* names can be given to line_range_replace as they are (src/internal/mcp_tools/rw_tools.go:256, :418, :655).
NumbersTrue ==
  LET lines == Split(text)
  IN /\ \A s \in reply.shown : s[1] \in DOMAIN lines /\ s[2] = lines[s[1]]
     /\ \A h \in reply.hint : LineRangeReplace(text, h.from, h.to, << >>).ok
=============================================================================
