------------------------------- MODULE IniConfig -------------------------------
(***************************************************************************)
(* IniConfig: the file of "key = value ; comment" lines a server reads at  *)
(* its start.  A file is a sequence of characters; a run of letters that   *)
(* the parser only moves as a whole may be one of them.                    *)
(***************************************************************************)
EXTENDS Integers, Sequences, FiniteSetsExt

CONSTANT BuffLen   \* BUFF_LEN: fgets reads at most BuffLen - 1 characters

ASSUME IniConfigAssumption == BuffLen \in Nat /\ BuffLen > 1

NoFields == <<>>

\* Mutant of Before: the last c is looked for.
BeforeLast(s, c) ==
  LET at == {i \in 1 .. Len(s) : s[i] = c}
  IN SubSeq(s, 1, IF at = {} THEN Len(s) ELSE Max(at) - 1)

\* The part of s before the first c.
Before(s, c) ==
  SubSeq(s, 1, Min({i \in 1 .. Len(s) : s[i] = c} \cup {Len(s) + 1}) - 1)

StripStart(s, c) ==
  SubSeq(s, Min({i \in 1 .. Len(s) : s[i] # c} \cup {Len(s) + 1}), Len(s))
StripEnd(s, c) ==
  SubSeq(s, 1, Max({i \in 1 .. Len(s) : s[i] # c} \cup {0}))

strTrim(s) == StripEnd(StripEnd(StripStart(s, " "), "\n"), " ")

\* What one line that fgets gave sets.
Setting(line) ==
  LET text == strTrim(Before(line, ";"))
      key  == Before(text, "=")
  IN IF Len(key) = Len(text) THEN NoFields
     ELSE [k \in {strTrim(key)} |-> strTrim(SubSeq(text, Len(key) + 2, Len(text)))]

\* Of two settings of a key the later one stays.
Over(later, earlier) ==
  [k \in DOMAIN later \cup DOMAIN earlier |->
     IF k \in DOMAIN later THEN later[k] ELSE earlier[k]]

\* Where the line that fgets reads from i on ends.
LineEnd(file, i) ==
  Min({j \in i .. Len(file) :
         file[j] = "\n" \/ j = i + BuffLen - 2 \/ j = Len(file)})

\* fields_ after the file.
Parse(file) ==
  LET from[i \in 1 .. Len(file) + 1] ==
        IF i > Len(file) THEN NoFields
        ELSE LET j == LineEnd(file, i)
             IN Over(from[j + 1], Setting(SubSeq(file, i, j)))
  IN from[1]

GetStr(fields, name) == IF name \in DOMAIN fields THEN fields[name] ELSE <<>>

Digit == [d \in {"0", "1", "2"} |->
            CASE d = "0" -> 0 [] d = "1" -> 1 [] d = "2" -> 2]

\* atoi: the digits at the start of the value, 0 if there is none.  (A value
\* does not start with a blank.)
atoi(s) ==
  LET digits == SubSeq(s, 1, Min({i \in 1 .. Len(s) : s[i] \notin DOMAIN Digit}
                                   \cup {Len(s) + 1}) - 1)
      value[i \in 0 .. Len(digits)] ==
        IF i = 0 THEN 0 ELSE 10 * value[i - 1] + Digit[digits[i]]
  IN value[Len(digits)]

GetInt(fields, name, default) ==
  IF name \in DOMAIN fields THEN atoi(fields[name]) ELSE default

-----------------------------------------------------------------------------
(* What the author of a file means.                                        *)

Blank(s, lo, hi) == \A i \in lo .. hi : s[i] = " "

\* c is s without the blanks around it.
IsCore(s, c) ==
  \E a \in 1 .. Len(s) + 1 : \E b \in a - 1 .. Len(s) :
    /\ Blank(s, 1, a - 1) /\ Blank(s, b + 1, Len(s))
    /\ c = SubSeq(s, a, b)
    /\ a <= b => s[a] # " " /\ s[b] # " "

\* The characters lo .. hi of a file are one of its lines, the newline left out.
IsLine(file, lo, hi) ==
  /\ lo = 1 \/ file[lo - 1] = "\n"
  /\ hi = Len(file) \/ file[hi + 1] = "\n"
  /\ \A i \in lo .. hi : file[i] # "\n"

\* The line lo .. hi says that key is value.
Says(file, lo, hi, key, value) ==
  \E eq \in lo .. hi : \E z \in eq .. hi :
    /\ file[eq] = "=" /\ \A i \in lo .. eq - 1 : file[i] # "="
    /\ \A i \in lo .. z : file[i] # ";"
    /\ z = hi \/ file[z + 1] = ";"
    /\ IsCore(SubSeq(file, lo, eq - 1), key)
    /\ IsCore(SubSeq(file, eq + 1, z), value)

\* No line is too long for fgets.
ShortLines(file) ==
  \A lo, hi \in 1 .. Len(file) : IsLine(file, lo, hi) => hi - lo + 2 < BuffLen

Lines(file) ==
  {l \in (1 .. Len(file)) \X (1 .. Len(file)) : IsLine(file, l[1], l[2])}

\* What can be cut from a file.
Cuts(file) == {SubSeq(file, i, j) : i \in 1 .. Len(file) + 1, j \in 0 .. Len(file)}

\* The last of the lines that say something of key.
Last(file, key) ==
  {l \in Lines(file) :
     /\ \E v \in Cuts(file) : Says(file, l[1], l[2], key, v)
     /\ \A k \in Lines(file) : k[1] > l[1] =>
          \A v \in Cuts(file) : ~Says(file, k[1], k[2], key, v)}

\* fields has a value for the keys some line sets, and it is the one that the
\* last of these lines says.
Meant(file, fields) ==
  /\ \A key \in Cuts(file) : Last(file, key) # {} <=> key \in DOMAIN fields
  /\ \A key \in DOMAIN fields : \E l \in Last(file, key) :
       Says(file, l[1], l[2], key, fields[key])
=============================================================================
