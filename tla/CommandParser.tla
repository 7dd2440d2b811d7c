--------------------------- MODULE CommandParser --------------------------
(***************************************************************************)
(* ChatClient/Utilities.h: StrToCommand.  A line is its first word, up to  *)
(* the first space, and the characters from that space on.                 *)
(***************************************************************************)
EXTENDS Integers, Sequences

CONSTANT Modulus      \* of unsigned long and of uint32_t: 2^32 where the client builds

ASSUME ModulusAssumption == Modulus \in Nat \ {0}

DigitChars == <<"0", "1", "2", "3", "4", "5", "6", "7", "8", "9">>
Digit == {DigitChars[d] : d \in 1 .. 10}
ValueOf(c) == (CHOOSE d \in 1 .. 10 : DigitChars[d] = c) - 1

SimpleCommands ==
  [Ping |-> "ServerPing", Clients |-> "ClientList", HelloAll |-> "HelloAll",
   Accept |-> "RequestAccept", Decline |-> "RequestDecline", Help |-> "Help"]

Command(prefix, id) == [prefix |-> prefix, id |-> id]
Blank == Command("Blank", 0)

-----------------------------------------------------------------------------
(* std::stoul *)

\* how many characters of chars s begins with
Leading(s, chars) ==
  CHOOSE k \in 0 .. Len(s) :
    /\ \A j \in 1 .. k : s[j] \in chars
    /\ k < Len(s) => s[k + 1] \notin chars

Skip(s, k) == SubSeq(s, k + 1, Len(s))

\* Mutant: only one space may precede the number.
AfterOneSpace(s) == s

\* White space, a sign, and the digits up to the first other character.
AfterSpaces(s) == Skip(s, Leading(s, {" "}))
Sign(s) == IF AfterSpaces(s) = <<>> THEN "none" ELSE Head(AfterSpaces(s))
Digits(s) ==
  LET t == IF Sign(s) \in {"-", "+"} THEN Tail(AfterSpaces(s)) ELSE AfterSpaces(s)
  IN  SubSeq(t, 1, Leading(t, Digit))

Decimal(digits) ==
  LET value[k \in 0 .. Len(digits)] ==
        IF k = 0 THEN 0 ELSE 10 * value[k - 1] + ValueOf(digits[k])
  IN  value[Len(digits)]

\* Mutant: a number that does not fit is wrapped.
ThrowsNotANumber(s) == Digits(s) = <<>>

\* it throws invalid_argument without a digit, out_of_range beyond unsigned long
Throws(s) == Digits(s) = <<>> \/ Decimal(Digits(s)) >= Modulus

\* a minus is taken modulo the width of unsigned long
Stoul(s) == IF Sign(s) = "-" THEN (Modulus - Decimal(Digits(s))) % Modulus
                             ELSE Decimal(Digits(s))

-----------------------------------------------------------------------------
\* string.substr(pos + 1).  Without a space pos is npos, pos + 1 is 0 and the
\* whole line is taken, which begins with a letter: stoul throws.
AfterFirstSpace(line) == IF line.rest = <<>> THEN <<"C">> ELSE Tail(line.rest)

StrToCommand(line) ==
  IF line.word \in DOMAIN SimpleCommands THEN Command(SimpleCommands[line.word], 0)
  ELSE IF line.word = "ConnectTo" /\ ~ Throws(AfterFirstSpace(line))
  THEN Command("ConnectTo", Stoul(AfterFirstSpace(line)))
  ELSE Blank
=============================================================================
