----------------------------- MODULE MCFunctions ----------------------------
(***************************************************************************)
(* The pure functions of the library: every state is an input to one of    *)
(* them, and every invariant compares what it computes with a definition.  *)
(***************************************************************************)
EXTENDS PureFunctions, Strings, Formats

TextsOver(chars, n) == UNION {[1 .. k -> chars] : k \in 0 .. n}

\* Keys of one and two digits, with one that is a multiple of the radix.
SortInputs ==
  [kind : {"sort"}, type : SortTypes, ascend : BOOLEAN, memory : {0, 1, 2, 9},
   keys : UNION {[0 .. n - 1 -> {0, 1, 10, 11}] : n \in 1 .. 4}]

TextInputs ==
  [kind : {"text"}, text : TextsOver({"a", "b", " ", "CR", "LF"}, 4),
   needle : TextsOver({"a", "b"}, 2), num : {2, 3, 6}]

PathInputs == [kind : {"path"}, path : TextsOver({"a", "/", "."}, 5)]

\* Entries of /proc: no number, init, another process.
PidInputs == [kind : {"pids"}, entries : TextsOver({0, 1, 7}, 4), room : 0 .. 3]

\* Words, spaces and line feeds in rows of two to four characters.
ConsoleInputs ==
  [kind : {"console"}, text : TextsOver({"a", " ", "LF"}, 6), cols : {4}, textWidth : {0, 2, 3},
   hardSplit : BOOLEAN, alignment : Alignments]

\* Minutes of a month of MonthLength days, and offsets on both sides.
OffsetInputs ==
  [kind : {"offset"}, utc : {30 * n + 1 : n \in 0 .. 48 * MonthLength - 1},
   offset : {-720, -300, -60, -30, 0, 30, 60, 330, 840}]

\* Around every power of a thousand, and the largest number.
Numbers ==
  {0, 7, 10, 99, 100, 999, 1000, 1010, 1100, 9999, 10000, 10500, 100000,
   1000000, 1100000, 12345678, 2147483647}

NumberInputs ==
  [kind : {"number"}, value : Numbers \cup {-v : v \in Numbers}, buflen : {0, 1, 5, 9, 10, 20}]

HexInputs ==
  [kind : {"hex"}, data : {<< >>, <<17>>, <<1, 255>>, <<254, 3, 7>>}, buflen : 1 .. 10, sep : BOOLEAN]

TimeInputs ==
  [kind : {"time"}, size : {1, 5, 9, 17, 30},
   time : [sec : {0, 1, 59, 60, 3599, 3600, 86400, 90061, 604800, 2000000},
           nsec : {0, 1, 999, 1000, 1000000, 1002003, 999999999}]]

FormatInputs ==
  [kind : {"format"},
   format : TextsOver({"%", "#", "0", ".", "I", "d"}, 5) \cup TextsOver({"%", "0", "u", "l", "z"}, 5)]

ArithmeticInputs == [kind : {"arithmetic"}, value : 1 .. 40, chunk : 1 .. 6]

Base64Inputs ==
  [kind : {"base64"}, data : UNION {[1 .. n -> {0, 77, 254}] : n \in 0 .. 5}, buflen : 0 .. 9]

\* Keys of one byte up to one more than may be, and data of three blocks.
Bit(n) == IF n % 2 = 1 THEN {0} ELSE {}

BlowfishInputs ==
  [kind : {"blowfish"}, key : {[i \in 1 .. n |-> Bit((i * i) \div 3)] : n \in {1, 2, 5, 56, 57}},
   iv : {[i \in 1 .. 8 |-> {}], [i \in 1 .. 8 |-> Bit(i)]},
   data : {[i \in 1 .. n |-> Bit(i \div m)] : n \in {8, 16, 24}, m \in {1, 3, 30}}]

\* The four bits of a number, one in each byte.
WordOf(n) == <<Bit(n \div 8), Bit(n \div 4), Bit(n \div 2), Bit(n)>>

MCInitialP == [i \in 0 .. 17 |-> WordOf(7 * i + 3)]

MCInitialS == [i \in 0 .. 3 |-> [k \in 0 .. 1 |-> WordOf(5 * i + 9 * k + 2)]]

MCWords == {[i \in 1 .. 8 |-> Bits(n * i)] : n \in {0, 1234567, 98765432}}

SerpentInputs ==
  [kind : {"serpent"}, words : MCWords, keyLen : {0, 1, 31, 32, 100, 255, 256, 257},
   block : {<<{}, {}, {}, {}>>, <<{0}, {31}, {5, 7}, Positions>>}]

BcryptInputs ==
  [kind : {"bcrypt"}, key : {<< >>, <<1>>, <<1, 2>>}, other : {<< >>, <<1, 1>>, <<1, 2, 1, 2>>},
   logRounds : {0, 17, 99}, seed : {[i \in 1 .. n |-> (11 * i) % 256] : n \in {15, 16, 17, 30}},
   saltlen : {31, 32, 128}]

\* Messages of up to three blocks, whose lengths overflow lo.
DigestInputs ==
  {i \in [kind : {"digest"}, alg : Algorithms, message : {[k \in 1 .. n |-> k] : n \in 0 .. 3 * Block},
          cut1 : 0 .. 3 * Block, cut2 : 0 .. 3 * Block] :
     i.cut1 <= i.cut2 /\ i.cut2 <= Len(i.message)}

ChecksumInputs ==
  [kind : {"checksum"}, message : UNION {[1 .. n -> {Bits(b) : b \in {0, 49, 200}}] : n \in 1 .. 3},
   cut : {1}, byte : {Bits(b) : b \in {0, 50, 128, 255}}]

\* What is proved is about inputs like these.
ASSUME InputsAssumption ==
  /\ \A i \in SortInputs : SortInput(i)
  /\ \A i \in Base64Inputs : Base64Input(i)
  /\ \A i \in BlowfishInputs : BlowfishInput(i)
  /\ \A i \in SerpentInputs : SerpentInput(i)
  /\ \A i \in BcryptInputs : BcryptInput(i)
  /\ \A i \in DigestInputs : DigestInput(i)
  /\ \A i \in ChecksumInputs : ChecksumInput(i)
-----------------------------------------------------------------------------
FunctionsInit ==
  \/ input \in SortInputs
  \/ input \in TextInputs
  \/ input \in PathInputs
  \/ input \in PidInputs
  \/ input \in ConsoleInputs
  \/ input \in OffsetInputs
  \/ input \in NumberInputs
  \/ input \in HexInputs
  \/ input \in TimeInputs
  \/ input \in FormatInputs
  \/ input \in ArithmeticInputs
  \/ input \in Base64Inputs
  \/ input \in BlowfishInputs
  \/ input \in SerpentInputs
  \/ input \in BcryptInputs
  \/ input \in DigestInputs
  \/ input \in ChecksumInputs
-----------------------------------------------------------------------------
\* The functions of string.c search, cut, trim, reverse and read text as
\* they are defined, wherever they are claimed to be right; paths are taken
\* apart, processes listed, and texts wrapped, without losing any part.
TextsCorrect ==
  /\ Is("text") => TextOK(input.text, input.needle, input.num)
  /\ Is("path") => PathOK(input.path)
  /\ Is("pids") => PidsOK(input.entries, input.room)
  /\ Is("console") =>
       ConsoleOK(input.text, input.cols, input.textWidth, input.hardSplit, input.alignment)

\* Numbers, bytes and times are formatted inside their buffers and can be
\* read back; formats are rewritten with nothing else changed.
FormatsCorrect ==
  /\ Is("number") => CommasOK(input.value, input.buflen)
  /\ Is("number") /\ input.value >= 0 =>
       BytesOK(input.value, TRUE) /\ BytesOK(input.value, FALSE)
  /\ Is("hex") => HexOK(input.data, input.buflen, input.sep)
  /\ Is("time") => TimestampOK(input.time, input.size)
  /\ Is("offset") => OffsetOK(input.utc, input.offset)
  /\ Is("format") => RewriteOK(input.format, 4)
  /\ Is("arithmetic") => ArithmeticOK(input.value, input.chunk)
=============================================================================
