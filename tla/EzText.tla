-------------------------------- MODULE EzText --------------------------------
(***************************************************************************)
(* The functions of easyc that only look at a string: the number parsers   *)
(* of include/easyparse.c, and the path functions of include/easyfile.c.   *)
(* A string is a sequence of characters without its terminating NUL.       *)
(***************************************************************************)
EXTENDS Integers, Sequences, SequencesExt

CONSTANTS
  Digits,      \* the characters strtoul takes for digits, with their values
  White,       \* the characters isspace takes for blanks, and strtoul skips
  LongSize,    \* unsigned long counts modulo this; long long is as wide
  IntSize,     \* unsigned int counts modulo this
  Types        \* the extensions ez_get_filetype knows, with their types

\* No extension: the NULL pointer.
NoName == <<"NULL">>

Minus == "-"
Plus == "+"

\* Both types have a power of two of values.
ASSUME TextAssumption ==
  /\ LongSize \in Nat /\ IntSize \in 1 .. LongSize /\ LongSize % IntSize = 0
  /\ \A c \in DOMAIN Digits : Digits[c] \in 0 .. 9
  /\ (White \cup {Minus, Plus}) \cap DOMAIN Digits = {}
  /\ White \cap {Minus, Plus} = {}
  /\ NoName \notin DOMAIN Types

Dot == "."
Separators == {"/", "\\"}

\* The length of the longest run of characters of S in s from position i on.
Run(s, S, i) == Max({n \in 0 .. Len(s) - i + 1 : \A j \in i .. i + n - 1 : s[j] \in S})

\* The number that a sequence of digits writes, digit by digit.
Magnitude(digits) ==
  LET upTo[n \in 0 .. Len(digits)] ==
        IF n = 0 THEN 0 ELSE 10 * upTo[n - 1] + Digits[digits[n]]
  IN  upTo[Len(digits)]

-----------------------------------------------------------------------------
\* strtoul and strtoll of the C library: blanks, a sign, digits.  `end' is how
\* many characters they took, 0 without a digit.
Scan(s) ==
  LET blanks == Run(s, White, 1)
      sign   == IF blanks < Len(s) /\ s[blanks + 1] \in {Minus, Plus} THEN 1 ELSE 0
      first  == blanks + sign + 1
      digits == Run(s, DOMAIN Digits, first)
  IN  [end       |-> IF digits = 0 THEN 0 ELSE first + digits - 1,
       negative  |-> sign = 1 /\ s[blanks + 1] = Minus,
       magnitude |-> Magnitude(SubSeq(s, first, first + digits - 1))]

\* The value of strtoul wraps below 0.
Unsigned(scan) == (IF scan.negative THEN -scan.magnitude ELSE scan.magnitude) % LongSize
Signed(scan) == IF scan.negative THEN -scan.magnitude ELSE scan.magnitude

\* ERANGE
TooLong(scan) == scan.magnitude >= LongSize
TooFar(scan) == Signed(scan) \notin -(LongSize \div 2) .. LongSize \div 2 - 1

Refused == [ok |-> FALSE, value |-> 0]

\* Mutant: errno is not looked at.
AcceptedAny(s, scan, overflow, value) ==
  IF scan.end = 0 \/ scan.end + Run(s, White, scan.end + 1) # Len(s)
  THEN Refused
  ELSE [ok |-> TRUE, value |-> value]

\* The tail that the parsers share: only blanks may follow the number.
Accepted(s, scan, overflow, value) ==
  IF \/ scan.end = 0 \/ overflow
     \/ scan.end + Run(s, White, scan.end + 1) # Len(s)
  THEN Refused
  ELSE [ok |-> TRUE, value |-> value]

\* ez_parse_size, ez_parse_uint and ez_parse_lint of a string and a place for
\* the result.  ez_parse_uint keeps the low half of what strtoul returned.
ParseSize(s) == Accepted(s, Scan(s), TooLong(Scan(s)), Unsigned(Scan(s)))
ParseUint(s) == Accepted(s, Scan(s), TooLong(Scan(s)), Unsigned(Scan(s)) % IntSize)
ParseLint(s) == Accepted(s, Scan(s), TooFar(Scan(s)), Signed(Scan(s)))

-----------------------------------------------------------------------------
\* strrchr: the last place of one of the characters S in a path, or 0.
LastOf(path, S) == Max({0} \cup {i \in DOMAIN path : path[i] \in S})

\* FileExtension
Extension(path) ==
  LET dot == LastOf(path, {Dot})
  IN  IF dot = 0 \/ dot < LastOf(path, Separators) THEN NoName
      ELSE SubSeq(path, dot + 1, Len(path))

\* ez_get_filetype
FileType(path) ==
  IF Extension(path) \in DOMAIN Types THEN Types[Extension(path)] ELSE "UNKNOWN"

\* ez_strip_filename
StripName(path) ==
  LET slash == LastOf(path, Separators)
  IN  IF slash \in {0, Len(path)} THEN NoName ELSE SubSeq(path, slash + 1, Len(path))

=============================================================================
