------------------------------- MODULE Formats ------------------------------
(***************************************************************************)
(* Formatting in generic/string/string.c and windows/string/format.c, with *)
(* the time and arithmetic functions of generic/time.c, windows/time.c and *)
(* generic/math.c.  A buffer that is filled is a sequence; a number is a   *)
(* list of its digits.                                                     *)
(***************************************************************************)
EXTENDS Integers, Sequences, SequencesExt

CONSTANT MonthLength  \* the days of a month

ASSUME FormatsAssumption == MonthLength \in Nat \ {0}

Sep == "sep"

Nul == "NUL"

RECURSIVE Commas(_, _, _), Grouped(_), Digits(_), Scaled(_, _, _), Written(_, _, _),
          Rewrite(_, _), Reference(_, _), RewriteInPlace(_, _, _, _), Plain(_, _)
-----------------------------------------------------------------------------
\* Mutant: the separator waits for a fourth digit.
CommasLate(value, j, buf) ==
  LET put == <<value % 10>> \o buf
      sep == j + 1 = 4 /\ value > 10
  IN  IF value \div 10 = 0 THEN put
      ELSE Commas(value \div 10, IF sep THEN 0 ELSE j + 1, IF sep THEN <<Sep>> \o put ELSE put)

\* The loop of xtFormatCommasLLU, from the last digit on; j digits were put
\* since the last separator.
Commas(value, j, buf) ==
  LET put == <<value % 10>> \o buf
      sep == j + 1 = 3 /\ value > 10
  IN  IF value \div 10 = 0 THEN put
      ELSE Commas(value \div 10, IF sep THEN 0 ELSE j + 1, IF sep THEN <<Sep>> \o put ELSE put)

\* The text is not written when it does not fit with its terminator.  What is
\* returned is a pointer to the text's first digit.
FormatCommasLLU(buflen, value) ==
  LET text == Commas(value, 0, << >>)
  IN  IF Len(text) + 1 > buflen THEN [null |-> TRUE] ELSE [null |-> FALSE, buf |-> text, at |-> 0]

FormatCommasLL(buflen, value) ==
  IF buflen = 0 THEN [null |-> TRUE]
  ELSE IF value >= 0 THEN FormatCommasLLU(buflen, value)
  ELSE LET r == FormatCommasLLU(buflen - 1, -value)
       IN  IF r.null THEN r ELSE [r EXCEPT !.buf = <<"-">> \o @, !.at = @ + 1]

Digits(v) == IF v < 10 THEN <<v>> ELSE Append(Digits(v \div 10), v % 10)

\* The definition of a number with separated thousands.
Grouped(v) ==
  IF v < 1000 THEN Digits(v)
  ELSE Grouped(v \div 1000) \o <<Sep, (v % 1000) \div 100, (v % 100) \div 10, v % 10>>

\* The numbers whose grouping comes to the value 10, which gets no separator.
SkipsComma(v) == \E p \in {100, 100000, 100000000} : v \div p = 10

\* xtFormatHex: the cells that are written, each with its index; step is 3
\* with a separator and 2 without.  The terminator comes last.
FormatHex(buflen, data, sep) ==
  LET step == IF sep THEN 3 ELSE 2
      whole == (buflen + step - 1) \div step
      n == IF whole < Len(data) THEN whole ELSE Len(data)
      stop == IF n * step >= buflen THEN buflen - 1 ELSE n * step
  IN  [i \in 0 .. n * step - 1 \cup {stop} |->
         IF i = stop THEN Nul
         ELSE CASE i % step = 0 -> data[i \div step + 1] \div 16
                [] i % step = 1 -> data[i \div step + 1] % 16
                [] OTHER -> Sep]

\* The loop of xtFormatBytesSI.
Scaled(d, base, npow) ==
  IF d >= base THEN Scaled(d \div base, base, npow + 1) ELSE [value |-> d, base |-> npow]

FormatBytesSI(value, strictBinary) == Scaled(value, IF strictBinary THEN 1024 ELSE 1000, 0)

Rot13(c) ==
  CASE c \in 65 .. 77 \cup 97 .. 109 -> c + 13
    [] c \in 78 .. 90 \cup 110 .. 122 -> c - 13
    [] OTHER -> c
-----------------------------------------------------------------------------
(***************************************************************************)
(* Timestamps.  The units of a date are numbered from weeks, 1, to         *)
(* nanoseconds, 8.                                                         *)
(***************************************************************************)
Giga == 1000000000

TimestampDiff(start, end) ==
  IF start.nsec <= end.nsec
  THEN [sec |-> end.sec - start.sec, nsec |-> end.nsec - start.nsec]
  ELSE [sec |-> end.sec - start.sec - 1, nsec |-> Giga - (start.nsec - end.nsec)]

\* xtTimestampToDate; xtFormatTimestamp takes a time apart the same way.
ToDate(t) ==
  <<t.sec \div 604800, (t.sec % 604800) \div 86400, (t.sec % 86400) \div 3600,
    (t.sec % 3600) \div 60, t.sec % 60,
    t.nsec \div 1000000, (t.nsec % 1000000) \div 1000, t.nsec % 1000>>

DateToTimestamp(d) ==
  [nsec |-> d[8] + 1000 * d[7] + 1000000 * d[6],
   sec |-> d[5] + 60 * d[4] + 3600 * d[3] + 86400 * d[2] + 604800 * d[1]]

TimestampToMS(t) == t.sec * 1000 + t.nsec \div 1000000

TimestampToUS(t) == t.sec * 1000000 + t.nsec \div 1000

\* The most significant unit of a time, as "mag" selects it for %g.
Magnitude(t) ==
  IF t.sec > 0
  THEN CASE t.sec >= 604800 -> 1 [] t.sec >= 86400 -> 2 [] t.sec >= 3600 -> 3
         [] t.sec >= 60 -> 4 [] OTHER -> 5
  ELSE CASE t.nsec >= 1000000 -> 6 [] t.nsec >= 1000 -> 7 [] OTHER -> 8

Char == [kind |-> "char"]

Named(u) == [kind |-> "named", unit |-> u]

\* What %g and %G stand for: a format of their own.
Format(item, t) ==
  IF item.kind = "full"
  THEN Tail(FlattenSeq([k \in 1 .. 9 - Magnitude(t) |-> <<Char, Named(Magnitude(t) + k - 1)>>]))
  ELSE LET units == SelectSeq([u \in 1 .. 8 |-> u], LAMBDA u : ToDate(t)[u] # 0)
       IN  FlattenSeq([k \in DOMAIN units |-> <<Named(units[k]), Char>>])

NameLength == <<4, 3, 4, 6, 6, 11, 11, 10>>

\* The length of a number with leading zeros or, with its unit's name, of a
\* phrase; the name has an s unless the number is 1.
Length(item, t) ==
  LET v == ToDate(t)[item.unit]
      digits == Len(Digits(v))
      pad == IF item.unit <= 2 THEN 1 ELSE IF item.unit <= 5 THEN 2 ELSE 3
  IN  IF item.kind = "named" THEN digits + 1 + NameLength[item.unit] + (IF v = 1 THEN 0 ELSE 1)
      ELSE IF digits < pad THEN pad ELSE digits

\* xtFormatTimestamp: the items it writes to a buffer of this size and their
\* length n, at which it puts the terminator.
Written(items, t, size) ==
  FoldLeft(LAMBDA r, item :
    CASE r.full -> r
      [] ~r.full /\ item.kind = "char" ->
           IF r.n >= size THEN [r EXCEPT !.full = TRUE]
           ELSE [r EXCEPT !.n = @ + 1]
      [] ~r.full /\ item.kind \in {"number", "named"} ->
           IF r.n + Length(item, t) >= size THEN [r EXCEPT !.full = TRUE]
           ELSE [r EXCEPT !.n = @ + Length(item, t), !.units = Append(@, item.unit)]
      [] OTHER ->
           LET s == Written(Format(item, t), t, size - r.n)
           IN  [r EXCEPT !.n = @ + s.n, !.units = @ \o s.units],
    [n |-> 0, units |-> << >>, full |-> FALSE], items)

FormatTimestamp(items, t, size) == Written(items, t, size)
-----------------------------------------------------------------------------
\* A SYSTEMTIME of a number of minutes since the first of some month.
SystemTime(minutes) ==
  [wDay |-> ((minutes \div 1440) % MonthLength) + 1,
   wHour |-> (minutes \div 60) % 24, wMinute |-> minutes % 60]

\* xtCalendarGetGMTOffset of windows/time.c.  The difference of two times is
\* taken for a time again; it has none when it is negative.
GMTOffset(local, utc) ==
  LET l == SystemTime(local)
      u == SystemTime(utc)
      diff == IF l.wHour > u.wHour \/ l.wDay > u.wDay THEN local - utc ELSE utc - local
  IN  IF diff < 0 THEN [known |-> FALSE]
      ELSE [known |-> TRUE,
            offset |-> SystemTime(diff).wHour * 60 + SystemTime(diff).wMinute]
-----------------------------------------------------------------------------
(***************************************************************************)
(* xtvsnprintf rewrites a format for the C library: %I8 to %I64 become the *)
(* library's size modifiers.  A format is a sequence of characters; "I"    *)
(* stands for a size I8 to I64, "l" for any other, "d" for a conversion,   *)
(* "PRI" for what replaces them.                                           *)
(***************************************************************************)
Flags == {"#", "0", "-"}

Number == {"0", "1"}

\* The longest run of these characters from index i on: where it ends.
Run(s, i, set) ==
  CHOOSE k \in i .. Len(s) + 1 :
    (\A j \in i .. k - 1 : s[j] \in set) /\ (k <= Len(s) => s[k] \notin set)

\* A directive that starts at index i, a %: where its parts end.
Directive(s, i) ==
  LET flags == Run(s, i + 1, Flags)
      width == Run(s, flags, Number)
      prec == IF width < Len(s) /\ s[width] = "." THEN Run(s, width + 1, Number) ELSE width
  IN  [flags |-> flags, width |-> width, prec |-> prec]

\* The start of a directive: the flags are put together again from a set.
Restarted(s, i) ==
  <<"%">> \o SelectSeq(<<"#", "0", "-">>, LAMBDA f : \E k \in i + 1 .. Directive(s, i).flags - 1 : s[k] = f)

IsSized(s, i) ==
  s[i] = "%" /\ LET d == Directive(s, i)
                IN  d.prec < Len(s) /\ s[d.prec] = "I" /\ s[d.prec + 1] = "d"

\* A size without a conversion: the table of replacements is read outside.
IsUnconverted(s, i) ==
  s[i] = "%" /\ LET d == Directive(s, i)
                IN  d.prec < Len(s) /\ s[d.prec] = "I" /\ s[d.prec + 1] # "d"

\* The precision of a sized directive is dropped; every other directive is
\* copied character by character.
Rewrite(s, i) ==
  IF i > Len(s) THEN << >>
  ELSE IF IsUnconverted(s, i) THEN <<"unknown">>
  ELSE IF IsSized(s, i)
  THEN LET d == Directive(s, i)
       IN  Restarted(s, i) \o SubSeq(s, d.flags, d.width - 1) \o <<"PRI">> \o Rewrite(s, d.prec + 2)
  ELSE <<s[i]>> \o Rewrite(s, i + 1)

\* A replacement has to end before the buffer does, a character may end with it.
Fits(text, room) ==
  Len(text) <= room /\ \A k \in DOMAIN text : text[k] = "PRI" => k < room

\* What is printed of a format: nothing, when its new text does not fit in a
\* buffer that has the size XT_PRINTF_BUFSZ, room, also for longer formats.
Vsnprintf(s, room) == IF Fits(Rewrite(s, 1), room) THEN Rewrite(s, 1) ELSE << >>

(***************************************************************************)
(* The second rewriting, on Windows: %llu and %zu become %I64u in the      *)
(* buffer itself, a sequence of cells of which one is the terminator.  It  *)
(* is read at r and written at w.  Width and precision are dropped.        *)
(***************************************************************************)
Replacement == <<"I", "6", "4", "u">>

Filled(s, room) == [k \in 1 .. room |-> IF k <= Len(s) THEN s[k] ELSE Nul]

Cell(b, k) == IF k \in DOMAIN b THEN b[k] ELSE Nul

\* The length of a modifier that is interpreted, ll or z.
ModifierLength(b, i) ==
  LET p == Directive(b, i).prec
  IN  CASE Cell(b, p) = "z" -> 1
        [] Cell(b, p) = "l" /\ Cell(b, p + 1) = "l" -> 2
        [] OTHER -> 0

\* Where its conversion is; after a modifier, one has to be there.
Conversion(b, i) == Directive(b, i).prec + ModifierLength(b, i)

IsLong(b, i) ==
  b[i] = "%" /\ ModifierLength(b, i) > 0 /\ Cell(b, Conversion(b, i)) = "u"

IsLongUnconverted(b, i) ==
  b[i] = "%" /\ ModifierLength(b, i) > 0 /\ Cell(b, Conversion(b, i)) \notin {"u", Nul}

Overlaid(b, w, text) ==
  [k \in DOMAIN b |-> IF k \in w .. w + Len(text) - 1 THEN text[k - w + 1] ELSE b[k]]

\* How far the rest of the format is moved, when the new text is thought not
\* to fit in the place of the directive.
Diff(b, r) ==
  LET arglen == Conversion(b, r) + 1 - r + Len(Restarted(b, r)) - 1
  IN  IF Len(Replacement) >= arglen THEN Len(Replacement) - arglen + 1 ELSE 0

\* memmove of all but the last cell, of which those that are moved by more
\* than one are not inside the buffer any more.
Moved(b, r) ==
  [k \in DOMAIN b |->
     IF Diff(b, r) > 0 /\ k > Conversion(b, r) + Diff(b, r) THEN b[k - Diff(b, r)] ELSE b[k]]

MovedOutside(b, r) == Diff(b, r) > 1 /\ Conversion(b, r) + 1 < Len(b)

NotPrinted(outside) == [text |-> << >>, outside |-> outside]

\* What is printed, and whether a cell outside the buffer was read or written.
RewriteInPlace(b, r, w, outside) ==
  IF \A k \in r .. Len(b) : b[k] # Nul THEN NotPrinted(TRUE)
  ELSE IF b[r] = Nul THEN [text |-> SubSeq(b, 1, w - 1), outside |-> outside \/ w > Len(b)]
  ELSE IF IsLongUnconverted(b, r) THEN [text |-> <<"unknown">>, outside |-> TRUE]
  ELSE IF IsLong(b, r)
  THEN LET text == Restarted(b, r) \o Replacement
       IN  IF w - 1 + Len(text) >= Len(b) THEN NotPrinted(outside)
           ELSE RewriteInPlace(Overlaid(Moved(b, r), w, text), Conversion(b, r) + 1 + Diff(b, r),
                               w + Len(text), outside \/ MovedOutside(b, r))
  ELSE IF w - 1 >= Len(b) THEN NotPrinted(outside)
  ELSE RewriteInPlace([b EXCEPT ![w] = b[r]], r + 1, w + 1, outside)

\* What string.h documents: directives are read from left to right, %% is a
\* literal, and a size is replaced with nothing else changed but the order of
\* the flags.
Reference(s, i) ==
  IF i > Len(s) THEN << >>
  ELSE IF s[i] = "%" /\ i < Len(s) /\ s[i + 1] = "%" THEN <<"%", "%">> \o Reference(s, i + 2)
  ELSE IF IsSized(s, i)
  THEN LET d == Directive(s, i)
       IN  Restarted(s, i) \o SubSeq(s, d.flags, d.prec - 1) \o <<"PRI">> \o Reference(s, d.prec + 2)
  ELSE <<s[i]>> \o Reference(s, i + 1)
-----------------------------------------------------------------------------
\* xtMathMemSplit of a length above 0.
MemSplit(len, chunkSize) ==
  [chunks |-> (IF len % chunkSize > 0 THEN len \div chunkSize + 1 ELSE len \div chunkSize) - 1,
   lastChunkSize |-> len % chunkSize]

\* value & (value - 1) is value without its lowest bit.
IsPow2(value) ==
  value >= 2 /\ LET b == CHOOSE b \in 0 .. 29 : value % 2 ^ (b + 1) # 0 /\ value % 2 ^ b = 0
                IN  value - 2 ^ b = 0

\* The shifts fill every bit below the highest one of value - 1.
NextPow2(value) ==
  IF value = 1 THEN 1
  ELSE 2 ^ (1 + CHOOSE b \in 0 .. 29 : (value - 1) \div 2 ^ b = 1)
-----------------------------------------------------------------------------
\* Commas are put where they belong and the text fits, with its sign, which
\* the pointer that is returned has passed.
CommasOK(v, buflen) ==
  LET r == FormatCommasLL(buflen, v)
      u == IF v < 0 THEN -v ELSE v
      text == IF v < 0 THEN <<"-">> \o Grouped(u) ELSE Grouped(u)
  IN  ~SkipsComma(u) =>
        IF Len(text) < buflen THEN ~r.null /\ r.buf = text /\ r.at = Len(text) - Len(Grouped(u))
        ELSE r.null

\* Data is written in digits, inside a buffer of whole groups, and completely
\* when it fits.
HexOK(data, buflen, sep) ==
  LET r == FormatHex(buflen, data, sep)
      step == IF sep THEN 3 ELSE 2
  IN  /\ buflen % step = 0 /\ buflen > 0 => DOMAIN r \subseteq 0 .. buflen - 1
      /\ step * Len(data) < buflen =>
           data = [i \in DOMAIN data |-> 16 * r[step * (i - 1)] + r[step * (i - 1) + 1]]

\* The number before the prefix is below the base and rounds the value down.
BytesOK(v, strictBinary) ==
  LET r == FormatBytesSI(v, strictBinary)
      base == IF strictBinary THEN 1024 ELSE 1000
  IN  r.value < base /\ r.value = v \div base ^ r.base

\* The units that are written make up the time; less space leaves out the
\* last ones, and a text of numbers leaves room for its terminator.
TimestampOK(t, size) ==
  /\ DateToTimestamp(ToDate(t)) = t
  /\ TimestampDiff([sec |-> 0, nsec |-> 1], t).nsec \in 0 .. Giga - 1
  /\ \A kind \in {"full", "nonzero"} :
       LET all == FormatTimestamp(<<[kind |-> kind]>>, t, 200)
           some == FormatTimestamp(<<[kind |-> kind]>>, t, size)
       IN  /\ DateToTimestamp([u \in 1 .. 8 |-> IF Contains(all.units, u) THEN ToDate(t)[u] ELSE 0]) = t
           /\ IsPrefix(some.units, all.units)
           /\ some.n <= size
  /\ \A u \in 1 .. 8 : FormatTimestamp(<<[kind |-> "number", unit |-> u]>>, t, size).n < size

\* The definition of the second rewriting.
Plain(s, i) ==
  IF i > Len(s) THEN << >>
  ELSE IF IsLong(s, i) THEN <<"%">> \o Replacement \o Plain(s, Conversion(s, i) + 1)
  ELSE <<s[i]>> \o Plain(s, i + 1)

\* Sizes are replaced where string.h says so, in a format without %% in which
\* no sized directive has a precision.  A size must come with a conversion.  A
\* format is printed as a whole when it is shorter than the buffer, and as a
\* whole or not at all when it is not.
SizesOK(s, room) ==
  /\ Vsnprintf(s, room) \in {Rewrite(s, 1), << >>}
  /\ Len(s) < room => Vsnprintf(s, room) = Rewrite(s, 1)
  /\ /\ \A i \in DOMAIN s : ~IsUnconverted(s, i)
     /\ \A i \in DOMAIN s : s[i] # "."
     /\ \A i \in 2 .. Len(s) : <<s[i - 1], s[i]>> # <<"%", "%">>
     => Rewrite(s, 1) = Reference(s, 1)

\* Where directives of long numbers have a conversion and neither flags nor a
\* width, and the new text fits into the buffer with its terminator, all of it
\* is printed; and nothing outside is used, unless a size_t is printed.
InPlaceOK(s, room) ==
  LET out == RewriteInPlace(Filled(s, room), 1, 1, FALSE)
  IN  /\ \A i \in DOMAIN s : ~IsLongUnconverted(s, i)
      /\ \A i \in DOMAIN s : IsLong(s, i) => Directive(s, i).prec = i + 1
      /\ Len(Plain(s, 1)) < room
      => /\ out.text = Plain(s, 1)
         /\ (\A i \in DOMAIN s : IsLong(s, i) => ModifierLength(s, i) = 2) => ~out.outside

\* The buffer of the second rewriting is at first just large enough.
RewriteOK(s, room) ==
  SizesOK(s, room) /\ \A more \in 1 .. 4 : InPlaceOK(s, Len(s) + more)

\* East of Greenwich, away from the end of a month, the offset is known as soon
\* as it makes the hour another one, and so it is where there is none.
OffsetOK(utc, offset) ==
  LET r == GMTOffset(utc + offset, utc)
  IN  offset = 0 \/ (offset >= 60 /\ SystemTime(utc).wDay < MonthLength)
        => r.known /\ r.offset = offset

\* Chunks make up a length that is no multiple of their size.
ArithmeticOK(v, chunk) ==
  /\ v % chunk # 0 =>
       MemSplit(v, chunk).chunks * chunk + MemSplit(v, chunk).lastChunkSize = v
  /\ v > 1 => IsPow2(NextPow2(v)) /\ NextPow2(v) >= v /\ NextPow2(v) \div 2 < v
=============================================================================
