------------------------------- MODULE Strings ------------------------------
(***************************************************************************)
(* The text functions of generic/string/string.c, and those of             *)
(* linux/file.c, linux/proc.c, windows/proc.c and generic/os.c that take a *)
(* path, a list of processes or a text apart.  A string is a sequence of   *)
(* characters without its terminator; End stands for the terminator.       *)
(***************************************************************************)
EXTENDS Integers, Sequences, SequencesExt

CONSTANTS Spaces,  \* the characters isspace() accepts
          Blank    \* the ordinary space

ASSUME StringsAssumption == Blank \in Spaces

End == "NUL"

\* The character at index i of a string and its terminator.
CharAt(s, i) == IF i = Len(s) + 1 THEN End ELSE s[i]

From(s, i) == SubSeq(s, i, Len(s))

RECURSIVE Tokens(_, _, _), Lines(_, _), SwapEnds(_, _, _), Squeeze(_, _, _),
          Rows(_, _, _, _), Joined(_)
-----------------------------------------------------------------------------
\* Mutant: the search goes on after the whole needle was found.
ContainsLenLate(h, n) ==
  n # << >> /\ FoldLeft(LAMBDA j, c : IF j < Len(n) /\ n[j + 1] = c THEN j + 1 ELSE 0,
                        0, h) = Len(n)

\* One pass over the haystack; a mismatch starts the needle again behind it.
ContainsLen(h, n) ==
  n # << >> /\ FoldLeft(LAMBDA j, c : IF j = Len(n) THEN j
                                      ELSE IF n[j + 1] = c THEN j + 1 ELSE 0,
                        0, h) = Len(n)

EndsWith(h, n) == Len(n) <= Len(h) /\ SubSeq(h, Len(h) - Len(n) + 1, Len(h)) = n

\* strncmp stops at the end of either string.
StartsWith(h, n) == \A i \in 1 .. Len(n) : i <= Len(h) /\ h[i] = n[i]

\* xtStringReadLine on what is left of a file: at most num - 1 characters,
\* up to a line feed, which is dropped with a carriage return before it.
ReadLine(file, num) ==
  LET feeds == {i \in 1 .. Len(file) : i < num /\ file[i] = "LF"}
      read == IF feeds # {} THEN CHOOSE i \in feeds : \A j \in feeds : i <= j
              ELSE IF num - 1 <= Len(file) THEN num - 1 ELSE Len(file)
      text == IF feeds = {} THEN SubSeq(file, 1, read)
              ELSE IF read > 1 /\ file[read - 1] = "CR" THEN SubSeq(file, 1, read - 2)
              ELSE SubSeq(file, 1, read - 1)
  IN  [line |-> text, rest |-> From(file, read + 1),
       null |-> text = << >> /\ feeds = {} /\ read < num - 1]

\* xtStringReverseLen: the ends are swapped until they meet.
SwapEnds(s, i, j) ==
  IF i >= j THEN s ELSE SwapEnds([s EXCEPT ![i] = s[j], ![j] = s[i]], i + 1, j - 1)

ReverseLen(s, len) == SwapEnds(s, 1, len)

\* xtStringSplit with strtok_r: at most num runs of other characters.
Tokens(s, delims, num) ==
  LET starts == {i \in 1 .. Len(s) : s[i] \notin delims}
      first == CHOOSE i \in starts : \A j \in starts : i <= j
      stops == {i \in first .. Len(s) + 1 : CharAt(s, i) \in delims \cup {End}}
      stop == CHOOSE i \in stops : \A j \in stops : i <= j
  IN  IF num = 0 \/ starts = {} THEN << >>
      ELSE <<SubSeq(s, first, stop - 1)>> \o Tokens(From(s, stop + 1), delims, num - 1)

ReplaceChars(s, org, replacer) ==
  [i \in 1 .. Len(s) |-> IF s[i] = org THEN replacer ELSE s[i]]

\* xtstrncpy: always terminated, unless nothing may be written.
StrNCpy(src, n) == SubSeq(src, 1, IF n - 1 < Len(src) THEN n - 1 ELSE Len(src))

Trim(s) ==
  LET kept == {i \in 1 .. Len(s) : s[i] \notin Spaces}
  IN  IF kept = {} THEN << >>
      ELSE SubSeq(s, CHOOSE i \in kept : \A j \in kept : i <= j,
                     CHOOSE i \in kept : \A j \in kept : i >= j)

\* The first index from p on that holds no space: the terminator's at the latest.
SkipSpaces(s, p) ==
  CHOOSE i \in p .. Len(s) + 1 :
    CharAt(s, i) \notin Spaces /\ \A j \in p .. i - 1 : s[j] \in Spaces

\* The loop of xtStringTrimWords, with p the index that is read next and q
\* what was written.  Two spaces at the end take p behind the terminator:
\* what it reads there is unknown.
Squeeze(s, p, q) ==
  IF p > Len(s) + 1 THEN Append(q, "unknown")
  ELSE IF p = Len(s) + 1 THEN q
  ELSE IF s[p] \notin Spaces THEN Squeeze(s, p + 1, Append(q, s[p]))
  ELSE IF p = Len(s) THEN q
  ELSE LET next == SkipSpaces(s, p + 1)
       IN  Squeeze(s, next + 1, q \o <<Blank, CharAt(s, next)>>)

TrimWords(s) == Squeeze(s, SkipSpaces(s, 1), << >>)

\* strrchr: the index of the last c in a string, 0 when there is none.
LastOf(s, c) == CHOOSE i \in 0 .. Len(s) :
  (i > 0 => s[i] = c) /\ \A j \in i + 1 .. Len(s) : s[j] # c

\* xtFileGetBaseName and xtFileGetExtension of a path.
GetBaseName(path) ==
  IF path = << >> THEN [null |-> TRUE]
  ELSE [null |-> FALSE, name |-> From(path, LastOf(path, "/") + 1)]

GetExtension(path) ==
  LET base == GetBaseName(path)
  IN  IF base.null THEN base
      ELSE IF LastOf(base.name, ".") \in {0, Len(base.name)} THEN [null |-> TRUE]
      ELSE [null |-> FALSE, name |-> From(base.name, LastOf(base.name, ".") + 1)]

\* xtProcGetPids with room for so many, and xtProcGetProcessCount.  Linux
\* reads the entries of /proc, of which strtoul takes those without a number
\* for 0; Windows walks a snapshot, of which it passes over the first.
Numeric(entries) == SelectSeq(entries, LAMBDA n : n # 0)

GetPids(entries, room, windows) ==
  LET found == IF windows THEN Tail(entries) ELSE Numeric(entries)
  IN  SubSeq(found, 1, IF room < Len(found) THEN room ELSE Len(found))

GetProcessCount(entries, windows) ==
  IF windows THEN Len(Tail(entries)) ELSE Len(Numeric(entries))
-----------------------------------------------------------------------------
(***************************************************************************)
(* xtConsolePutString of generic/os.c, which wraps a text into rows.       *)
(***************************************************************************)
Alignments == {"XT_CONSOLE_ALIGN_LEFT", "XT_CONSOLE_ALIGN_CENTER", "XT_CONSOLE_ALIGN_RIGHT"}

\* Unless words may be split, one that is as long as the row is refused.
Refused(s, width, hardSplit) ==
  /\ ~hardSplit /\ Len(s) > width
  /\ \E i \in 1 .. Len(s) - width + 1 : \A j \in i .. i + width - 1 : s[j] \notin Spaces

\* rowsize: the distance to the next line feed, up to the width.
RowSize(s, p, width) ==
  CHOOSE n \in 0 .. width :
    /\ n = width \/ CharAt(s, p + n) \in {"LF", End}
    /\ \A i \in p .. p + n - 1 : CharAt(s, i) \notin {"LF", End}

\* A row that is full goes back to its last space, unless words may be split.
RowEnd(s, p, width, hardSplit) ==
  LET next == p + RowSize(s, p, width)
  IN  IF hardSplit \/ CharAt(s, next) \in {"LF", End} THEN next
      ELSE CHOOSE i \in p .. next : s[i] \in Spaces /\ \A j \in i + 1 .. next : s[j] \notin Spaces

\* The blanks before a row are counted before it goes back.
Indent(size, cols, alignment) ==
  CASE alignment = "XT_CONSOLE_ALIGN_LEFT" -> 0
    [] alignment = "XT_CONSOLE_ALIGN_CENTER" -> (cols - size) \div 2
    [] alignment = "XT_CONSOLE_ALIGN_RIGHT" -> cols - size

\* The rows from index p on; the spaces behind a row are skipped.
Rows(s, p, width, hardSplit) ==
  IF p > Len(s) THEN << >>
  ELSE LET next == RowEnd(s, p, width, hardSplit)
       IN  <<[size |-> RowSize(s, p, width), text |-> SubSeq(s, p, next - 1)]>>
           \o Rows(s, SkipSpaces(s, next), width, hardSplit)

\* A width of 0 means the console's.
ConsolePutString(s, cols, textWidth, hardSplit, alignment) ==
  LET width == IF textWidth = 0 THEN cols ELSE textWidth
      rows == Rows(s, 1, width, hardSplit)
  IN  IF Refused(s, width, hardSplit) THEN [ret |-> "XT_EMSGSIZE", rows |-> << >>]
      ELSE [ret |-> "ok",
            rows |-> [i \in DOMAIN rows |->
                        [indent |-> Indent(rows[i].size, cols, alignment), text |-> rows[i].text]]]
-----------------------------------------------------------------------------
OccursAt(h, n, i) == IsPrefix(n, From(h, i))

Occurs(h, n) == \E i \in 1 .. Len(h) : OccursAt(h, n, i)

\* The needle's first character appears nowhere but where the needle does.
Restartless(h, n) ==
  \A i \in 1 .. Len(h) : h[i] = n[1] => OccursAt(h, n, i)

\* Contains is right when it says yes, and when it never has to go back.
ContainsOK(h, n) ==
  n # << >> => /\ ContainsLen(h, n) => Occurs(h, n)
               /\ Occurs(h, n) /\ Restartless(h, n) => ContainsLen(h, n)

\* Prefixes of a string are suffixes of the reversed one.
EndsOK(h, n) ==
  EndsWith(h, n) <=> StartsWith(ReverseLen(h, Len(h)), ReverseLen(n, Len(n)))

Joined(words) ==
  CASE words = << >> -> << >>
    [] Len(words) = 1 -> words[1]
    [] OTHER -> words[1] \o <<Blank>> \o Joined(Tail(words))

Words(s) == Tokens(s, Spaces, Len(s))

\* Trim and TrimWords leave the words, the latter with single spaces between
\* them, for a string that does not end in several spaces.
TrimOK(s) ==
  /\ Words(Trim(s)) = Words(s)
  /\ Trim(s) # << >> => {Trim(s)[1], Last(Trim(s))} \cap Spaces = {}
  /\ ~(Len(s) > 1 /\ {s[Len(s)], s[Len(s) - 1]} \subseteq Spaces)
       => TrimWords(s) = Joined(Words(s))

\* A path is its directory and its base name, which ends with the extension
\* and in which no directory is left.
PathOK(path) ==
  path # << >> =>
    LET base == GetBaseName(path).name
        ext == GetExtension(path)
    IN  /\ EndsWith(path, base) /\ ~Contains(base, "/")
        /\ Len(base) < Len(path) => path[Len(path) - Len(base)] = "/"
        /\ ~ext.null => ext.name # << >> /\ EndsWith(base, <<".">> \o ext.name) /\ ~Contains(ext.name, ".")
        /\ ext.null /\ Contains(base, ".") => Last(base) = "."

\* With room for as many PIDs as were counted, every process is found but
\* the first of a snapshot; with less room, as many as fit.
PidsOK(entries, room) ==
  /\ ToSet(GetPids(entries, GetProcessCount(entries, FALSE), FALSE)) = ToSet(entries) \ {0}
  /\ entries # << >> =>
       <<Head(entries)>> \o GetPids(entries, GetProcessCount(entries, TRUE), TRUE) = entries
  /\ Len(GetPids(entries, room, FALSE)) <= room

\* Lines read one by one until the NULL, with a buffer of num characters.
Lines(file, num) ==
  LET r == ReadLine(file, num)
  IN  IF r.null THEN << >> ELSE <<r.line>> \o Lines(r.rest, num)

\* A file is read completely, whatever the buffer's size, except that line
\* ends are dropped; a large buffer receives one line at a time.
ReadLineOK(file, num) ==
  LET drop(s) == SelectSeq(s, LAMBDA c : c \notin {"LF", "CR"})
      feeds == Cardinality({i \in 1 .. Len(file) : file[i] = "LF"})
      read == Lines(file, num)
  IN  /\ drop(FlattenSeq(read)) = drop(file)
      /\ \A i \in DOMAIN read : Len(read[i]) < num
      /\ num > Len(file) + 1 =>
           Len(read) = feeds + (IF file # << >> /\ Last(file) # "LF" THEN 1 ELSE 0)

TextOK(s, n, num) ==
  /\ ContainsOK(s, n) /\ EndsOK(s, n)
  /\ TrimOK(s)
  /\ FlattenSeq(Words(s)) = SelectSeq(s, LAMBDA c : c \notin Spaces)
  /\ Len(Tokens(s, Spaces, num)) <= num
  /\ ReadLineOK(s, num)
  /\ ReverseLen(s, Len(s)) = Reverse(s)
  /\ num > 0 => Len(StrNCpy(s, num)) < num /\ IsPrefix(StrNCpy(s, num), s)

(***************************************************************************)
(* Rows fit into their width and into the console, where the width is not  *)
(* larger.  Nothing but spaces is lost; no word is split unless words may  *)
(* be; and words are only refused if one is as long as a row.              *)
(***************************************************************************)
ConsoleOK(s, cols, textWidth, hardSplit, alignment) ==
  LET width == IF textWidth = 0 THEN cols ELSE textWidth
      out == ConsolePutString(s, cols, textWidth, hardSplit, alignment)
      texts == [i \in DOMAIN out.rows |-> out.rows[i].text]
      unspaced(t) == SelectSeq(t, LAMBDA c : c \notin Spaces)
  IN  /\ out.ret = "XT_EMSGSIZE" =>
           ~hardSplit /\ \E i \in DOMAIN Words(s) : Len(Words(s)[i]) >= width
      /\ out.ret = "ok" =>
           /\ unspaced(FlattenSeq(texts)) = unspaced(s)
           /\ ~hardSplit => FlattenSeq([i \in DOMAIN texts |-> Words(texts[i])]) = Words(s)
           /\ \A i \in DOMAIN texts : Len(texts[i]) <= width /\ ~Contains(texts[i], "LF")
           /\ \A i \in DOMAIN texts : out.rows[i].indent + Len(texts[i]) <= cols
=============================================================================
