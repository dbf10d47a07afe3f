------------------------------- MODULE Config -------------------------------
(***************************************************************************)
(* How a receiver is configured: readConfig asks for one setting after the *)
(* other, each with GetValueByKeyFromConfig, which reads the whole file    *)
(* anew, looks for the key as a substring (strstr) and copies what follows *)
(* it into the caller's buffer.  A text is a sequence of characters.  (The *)
(* vertical tab and the form feed, which stoi skips, are not among them.)  *)
(***************************************************************************)
EXTENDS Integers, Sequences, SequencesExt, FiniteSetsExt

CONSTANTS
  Char,        (* the characters in use, zero apart                         *)
  Settings,    (* what is asked for, in order: key, kind and default         *)
  Texts,       (* what the file may hold                                    *)
  Tails,       (* what may follow it in the buffer, which is not cleared    *)
               (* and not terminated, before the first zero                 *)
  BufLen,      (* the size of read_str: 32                                  *)
  Unit,        (* an M: 1024 * 1024                                         *)
  IntMax       (* the largest int                                           *)

Nul == "nul"

Stops == {"nl", "cr", "sp", "tab", "#", "eof"}

(* The keys are literals of readConfig, words of letters, digits and "_". *)
ASSUME ConfigAssumption ==
  /\ Nul \notin Char
  /\ Texts \subseteq Seq(Char) /\ Tails \subseteq Seq(Char)
  /\ DOMAIN Settings = 1 .. Len(Settings) /\ Len(Settings) \in Nat
  /\ \A i \in DOMAIN Settings :
       /\ Settings[i].key # <<>> /\ Settings[i].key \in Seq(Char \ {"nl", "="})
       /\ Settings[i].kind \in {"switch", "text", "size", "resolution"}
  /\ BufLen \in Nat \ {0}
  /\ Unit \in Nat \ {0}
  /\ IntMax \in Nat

VARIABLES
  text,        (* the file                                                  *)
  tails,       (* of every lookup: what its buffer holds behind the file    *)
  next,        (* the setting that is read next                             *)
  read_str,    (* the buffer every value is copied to                       *)
  values,      (* of every setting: "unset", or what it was given or defaults to *)
  outcome      (* "reading", "done", or "thrown" out of the constructor     *)

cfgVars == <<text, tails, next, read_str, values, outcome>>

Cleared == [i \in 1 .. BufLen |-> Nul]
Unset == [as |-> "unset"]

-----------------------------------------------------------------------------
(* GetValueByKeyFromConfig *)

Occurs(key, s, at) == at + Len(key) - 1 <= Len(s)
                        /\ SubSeq(s, at, at + Len(key) - 1) = key

(* strstr: the first place, or 0 *)
Find(key, s) ==
  LET places == {at \in 1 .. Len(s) : Occurs(key, s, at)}
  IN IF places = {} THEN 0 ELSE Min(places)

(* The longest prefix of s of at most n characters and without a stop *)
UpToStop(s, n) ==
  LET stops == {i \in DOMAIN s : s[i] \in Stops} \cup {n + 1, Len(s) + 1}
  IN SubSeq(s, 1, Min(stops) - 1)

(* Mutant of Limit: room for the terminating zero is not kept. *)
LimitOfLength == BufLen

Limit == BufLen - 1

(* One character after the key is skipped, whatever it is.  When the key is *)
(* the last of the string, the bound of the loop, an unsigned difference,   *)
(* is huge and the copy goes on behind the terminating zero (see ValuesAt).   *)
ValueAt(key, s, at) == UpToStop(SubSeq(s, at + Len(key) + 1, Len(s)), Limit)

(* Undefined: any memory may be behind the zero. *)
ValuesAt(key, s, at) ==
  IF at + Len(key) - 1 = Len(s) THEN {UpToStop(t, Limit) : t \in Tails}
                                ELSE {ValueAt(key, s, at)}

(* The value is copied without a zero behind it. *)
CopyTo(buffer, value) ==
  [i \in 1 .. BufLen |-> IF i <= Len(value) THEN value[i] ELSE buffer[i]]

(* The C string in the buffer *)
CString(buffer) ==
  LET zeros == {i \in 1 .. BufLen : buffer[i] = Nul} \cup {BufLen + 1}
  IN SubSeq(buffer, 1, Min(zeros) - 1)

-----------------------------------------------------------------------------
(* std::stoi and what readConfig makes of it *)

Digits == <<"0", "1", "2", "3", "4", "5", "6", "7", "8", "9">>

Signed(s) == s # <<>> /\ s[1] \in {"+", "-"}

LeadingDigits(s) ==
  LET others == {i \in DOMAIN s : s[i] \notin Range(Digits)} \cup {Len(s) + 1}
  IN SubSeq(s, 1, Min(others) - 1)

(* What stoi reads behind the sign, if there is one *)
Figures(s) == LeadingDigits(IF Signed(s) THEN Tail(s) ELSE s)

stoi(s) ==
  LET digit(c) == (CHOOSE i \in DOMAIN Digits : Digits[i] = c) - 1
      number   == FoldLeft(LAMBDA n, c : 10 * n + digit(c), 0, Figures(s))
  IN IF s # <<>> /\ s[1] = "-" THEN -number ELSE number

IsInt(s) == Figures(s) # <<>> /\ stoi(s) \in -IntMax - 1 .. IntMax

(* The product of ints wraps; the uint64_t it becomes has twice the bits. *)
Product(n) ==
  LET words == 2 * (IntMax + 1)
  IN (((n * Unit + IntMax + 1) % words) - IntMax - 1) % (words * words)

Numbers == {"switch", "size"}

Given(kind, s) ==
  CASE kind = "switch" -> [as |-> "switch", to |-> stoi(s) % 256 # 0]
    [] kind = "size"   -> [as |-> "size", to |-> Product(stoi(s))]
    [] kind = "text"   -> [as |-> "text", to |-> s]
    [] kind = "resolution" ->
         [as |-> "resolution", to |-> IF IsPrefix(<<"7", "2", "0">>, s) THEN 720 ELSE 1080]

-----------------------------------------------------------------------------
CfgInit ==
  /\ text \in Texts
  /\ tails \in [DOMAIN Settings -> Tails]
  /\ next = 1
  /\ read_str = Cleared
  /\ values = [i \in DOMAIN Settings |-> Unset]
  /\ outcome = "reading"

Content == text \o tails[next]
Setting == Settings[next]

Reading == outcome = "reading" /\ next <= Len(Settings)

(* Mutant of Missing: what was not found is converted all the same. *)
MissingThrows ==
  /\ Reading
  /\ text = <<>> \/ Find(Setting.key, Content) = 0
  /\ outcome' = IF Setting.kind \in Numbers THEN "thrown" ELSE outcome
  /\ values' = [values EXCEPT ![next] = Setting.default]
  /\ next' = IF Setting.kind \in Numbers THEN next ELSE next + 1
  /\ UNCHANGED <<text, tails, read_str>>

(* Not in the file, or nothing in the file, which open creates if it does *)
(* not exist; a file that cannot be opened counts as an empty one.        *)
Missing ==
  /\ Reading
  /\ text = <<>> \/ Find(Setting.key, Content) = 0
  /\ values' = [values EXCEPT ![next] = Setting.default]
  /\ next' = next + 1
  /\ UNCHANGED <<text, tails, read_str, outcome>>

(* Mutant of Found: read_str is not cleared for the next setting. *)
FoundWithoutClear ==
  /\ Reading
  /\ text # <<>>
  /\ Find(Setting.key, Content) # 0
  /\ \E value \in ValuesAt(Setting.key, Content, Find(Setting.key, Content)) :
       LET buffer == CopyTo(read_str, value)
       IN IF Setting.kind \in Numbers /\ ~IsInt(CString(buffer))
            THEN read_str' = buffer /\ outcome' = "thrown" /\ UNCHANGED <<values, next>>
            ELSE /\ values' = [values EXCEPT ![next] = Given(Setting.kind, CString(buffer))]
                 /\ next' = next + 1
                 /\ read_str' = buffer
                 /\ UNCHANGED outcome
  /\ UNCHANGED <<text, tails>>

(* The value is taken from read_str, which is then cleared; a number that is *)
(* none, or too large, is an exception that nothing catches.                 *)
Found ==
  /\ Reading
  /\ text # <<>>
  /\ Find(Setting.key, Content) # 0
  /\ \E value \in ValuesAt(Setting.key, Content, Find(Setting.key, Content)) :
       LET buffer == CopyTo(read_str, value)
       IN IF Setting.kind \in Numbers /\ ~IsInt(CString(buffer))
            THEN read_str' = buffer /\ outcome' = "thrown" /\ UNCHANGED <<values, next>>
            ELSE /\ values' = [values EXCEPT ![next] = Given(Setting.kind, CString(buffer))]
                 /\ next' = next + 1
                 /\ read_str' = Cleared
                 /\ UNCHANGED outcome
  /\ UNCHANGED <<text, tails>>

Done ==
  /\ outcome = "reading"
  /\ next > Len(Settings)
  /\ outcome' = "done"
  /\ UNCHANGED <<text, tails, next, read_str, values>>

CfgNext == Missing \/ Found \/ Done

CfgSpec == CfgInit /\ [][CfgNext]_cfgVars

-----------------------------------------------------------------------------
(* Properties *)

(* The lines of the file: the places where one starts, and where it ends *)
LineStarts == {1} \cup {i + 1 : i \in {j \in DOMAIN text : text[j] = "nl"}}
LineEnd(at) == Min({i \in at .. Len(text) : text[i] = "nl"} \cup {Len(text) + 1})

(* The value a reader of the file sees: of the first line "key=value" *)
Lines(key) == {at \in LineStarts : Occurs(key \o <<"=">>, text, at)}
LineValue(key) ==
  LET at == Min(Lines(key))
  IN UpToStop(SubSeq(text, at + Len(key) + 1, LineEnd(at) - 1), Limit)

(* The size a line asks for is that many M, which must fit an int. *)
Expected(i) ==
  IF Lines(Settings[i].key) = {} THEN Settings[i].default
  ELSE IF Settings[i].kind = "size"
    THEN [as |-> "size", to |-> stoi(LineValue(Settings[i].key)) * Unit]
    ELSE Given(Settings[i].kind, LineValue(Settings[i].key))

(* It asks for no size that is negative or more than an int. *)
Fits(i) == Expected(i).as = "size" => Expected(i).to \in 0 .. IntMax

(* The key is nowhere before its own line; one without a line is not in the *)
(* buffer at all, which is longer than the file and not cleared.            *)
Unambiguous(i) ==
  LET at == Find(Settings[i].key, text \o tails[i])
  IN at = 0 \/ at \in Lines(Settings[i].key)

(* Its line ends in a line break, or the buffer has a zero behind the file. *)
Ended(i) ==
  Lines(Settings[i].key) # {} =>
    tails[i] = <<>> \/ LineEnd(Min(Lines(Settings[i].key))) <= Len(text)

(* Every setting that has been read has the value of its own line, or the   *)
(* default, whatever the other lines hold, however long the values read     *)
(* before it were and whatever stands in the buffer behind the file.  Three *)
(* cases are left out, in which the code reads something else: a key that   *)
(* is mentioned before its line or, without a line, behind the file; a last *)
(* line without a line break that runs on into the buffer; and a size that  *)
(* is no int.                                                               *)
SettingsAreTheirLines ==
  \A i \in 1 .. next - 1 :
    Unambiguous(i) /\ Ended(i) /\ Fits(i) => values[i] = Expected(i)

(* read_str, which is used as a C string, always ends in a zero. *)
ReadStrIsTerminated == read_str[BufLen] = Nul

(* The receiver's constructor throws only over a number: one whose line has *)
(* none, or none that is an int, or one that is read elsewhere than on its  *)
(* line (see Unambiguous and Ended).  A setting that is not in the file     *)
(* stops it only if its key is behind the file in the buffer.               *)
ThrowsOverNumbersOnly ==
  outcome = "thrown" =>
    /\ Setting.kind \in Numbers
    /\ Find(Setting.key, Content) # 0
    /\ Unambiguous(next) /\ Ended(next) =>
         Lines(Setting.key) # {} /\ ~IsInt(LineValue(Setting.key))

=============================================================================
