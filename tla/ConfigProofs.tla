---------------------------- MODULE ConfigProofs ----------------------------
(***************************************************************************)
(* What an accepted configuration is made of, for every command line and   *)
(* every file: TLC only looks at inputs that differ from a plain one in    *)
(* two places.                                                             *)
(***************************************************************************)
EXTENDS Config, TLAPS

\* The options are a sequence, and the ones it holds are the program's.
LEMMA OrderSeq ==
  ASSUME NEW p \in Program
  PROVE  /\ Len(Order(p)) \in Nat
         /\ \A i \in 1..Len(Order(p)) : Order(p)[i] \in OptionSet(p)
  <1>1. CASE p = "client"
    BY <1>1 DEF Order, Required, Optional, OptionSet
  <1>2. CASE p = "server"
    BY <1>2 DEF Order, Required, Optional, OptionSet
  <1> QED BY <1>1, <1>2 DEF Program

\* What RawConfig holds before the command line is merged ...
Base(o) == IF path = "file" THEN FieldOf(o) ELSE DefaultOf(program, o)

\* ... and after it.
Result(o) == IF cmd[o] = "good" THEN "cmd" ELSE Base(o)

\* An option that parse has dealt with.
Settled(o) ==
    /\ raw[o] = Result(o)
    /\ cmd[o] # "bad"
    /\ IsRequired(program, o) => raw[o] # "none"

Merging == pc \in {"merge", "build", "ok"}

(***************************************************************************)
(* Up to the option parse looks at every option is settled, from there on  *)
(* each has its value of the file or the defaults.                         *)
(***************************************************************************)
IInv ==
    /\ TypeOK
    /\ pc = "args" =>
           raw = [o \in OptionSet(program) |-> DefaultOf(program, o)]
    /\ pc = "file" => path # "none"
    /\ pc \in {"args", "file"} => at = 1
    /\ pc # "args" /\ pc # "error" =>
           other = "none" /\ \A o \in OptionSet(program) : cmd[o] # "twice"
    /\ Merging =>
           /\ path # "missing"
           /\ path = "file" => ~BadFile
           /\ \A o \in OptionSet(program) : raw[o] \in {Base(o), Result(o)}
           /\ \A i \in 1..Len(Order(program)) :
                  i < at => Settled(Order(program)[i])
    /\ pc \in {"build", "ok"} => at > Len(Order(program))
    /\ error = "MissingOption" =>
           \E o \in OptionSet(program) :
               IsRequired(program, o) /\ cmd[o] = "absent" /\ Base(o) = "none"

-----------------------------------------------------------------------------
\* The invariant holds when parse is called, for every input.
LEMMA InitInv == Init => IInv
  <1> SUFFICES ASSUME Init PROVE IInv
    OBVIOUS
  <1>0. program \in Program /\ at = 1
    BY DEF Init, Input
  <1>1. at \in 1..Len(Order(program)) + 1
    <2>1. Len(Order(program)) \in Nat
      BY <1>0, OrderSeq
    <2> QED BY <1>0, <2>1
  <1>2. raw \in [OptionSet(program) -> RawValue]
    BY DEF Init, RawValue, DefaultOf
  <1> QED BY <1>1, <1>2 DEF Init, Input, IInv, TypeOK, Merging

\* Returning an error other than MissingOption disturbs nothing.
LEMMA FailInv ==
  ASSUME IInv, NEW e \in OtherArgument \cup {"ParseArgument", "Io",
             "ParseConfigJson", "Parse", "LocalAuthentication", "Certificate"},
         Fail(e)
  PROVE  IInv'
  BY DEF IInv, TypeOK, Fail, input, Merging, OtherArgument

\* ParseArgs and FromFile leave RawConfig with its values of the file or the
\* defaults, and the command line still to be merged.
LEMMA ReadInv == IInv /\ (ParseArgs \/ FromFile) => IInv'
  <1> SUFFICES ASSUME IInv, ParseArgs \/ FromFile PROVE IInv'
    OBVIOUS
  <1>1. CASE ParseArgs
    <2>1. CASE pc' = "error"
      BY <1>1, <2>1, FailInv DEF ParseArgs, IInv, TypeOK
    <2>2. CASE pc' # "error"
      <3>1. /\ pc = "args" /\ other = "none"
            /\ \A o \in DOMAIN cmd : cmd[o] # "twice"
            /\ pc' = IF path = "none" THEN "merge" ELSE "file"
            /\ UNCHANGED <<program, cmd, other, path, sections, file, raw, at,
                           error>>
        BY <1>1, <2>2 DEF ParseArgs, Fail, input
      <3>2. TypeOK'
        BY <3>1 DEF IInv, TypeOK
      <3>3. path = "none" => \A o \in OptionSet(program) : raw[o] = Base(o)
        BY <3>1 DEF IInv, Base
      <3>4. (at = 1)'
        BY <3>1 DEF IInv
      <3>5. (\A o \in OptionSet(program) : cmd[o] # "twice")'
        BY <3>1 DEF IInv, TypeOK
      <3> QED
        BY <3>1, <3>2, <3>3, <3>4, <3>5 DEF IInv, Merging, Base, FieldOf
    <2> QED BY <2>1, <2>2
  <1>2. CASE FromFile
    <2>1. CASE pc' = "error"
      BY <1>2, <2>1, FailInv DEF FromFile
    <2>2. CASE pc' # "error"
      <3>1. /\ pc = "file" /\ path = "file" /\ ~BadFile
            /\ raw' = [o \in OptionSet(program) |-> FieldOf(o)]
            /\ pc' = "merge"
            /\ UNCHANGED <<program, cmd, other, path, sections, file, at,
                           error>>
        BY <1>2, <2>2 DEF FromFile, Fail, input
      <3>2. raw' \in [OptionSet(program) -> RawValue]
        BY <3>1 DEF FieldOf, DefaultOf, RawValue
      <3>3. TypeOK'
        BY <3>1, <3>2 DEF IInv, TypeOK
      <3>4. (\A o \in OptionSet(program) : raw[o] = Base(o))'
        BY <3>1 DEF Base, FieldOf
      <3>5. (~BadFile)'
        BY <3>1 DEF BadFile
      <3>6. (at = 1)'
        BY <3>1 DEF IInv
      <3> QED
        BY <3>1, <3>3, <3>4, <3>5, <3>6 DEF IInv, Merging, Base, FieldOf
    <2> QED BY <2>1, <2>2
  <1> QED BY <1>1, <1>2

\* Merging one option settles it and unsettles none, though an option were
\* looked at twice.
LEMMA MergeInv == IInv /\ Merge => IInv'
  <1> SUFFICES ASSUME IInv, Merge PROVE IInv'
    OBVIOUS
  <1> DEFINE N == Len(Order(program))
  <1>0. /\ program \in Program /\ N \in Nat /\ at \in 1..N
        /\ \A i \in 1..N : Order(program)[i] \in OptionSet(program)
    <2>1. program \in Program /\ at \in 1..N + 1 /\ at <= N
      BY DEF IInv, TypeOK, Merge
    <2>2. N \in Nat
      BY <2>1, OrderSeq
    <2>3. at \in 1..N
      BY <2>1, <2>2
    <2> QED BY <2>1, <2>2, <2>3, OrderSeq
  <1> PICK o \in OptionSet(program) : o = Order(program)[at]
    BY <1>0
  <1>1. pc = "merge" /\ MergeOption(o)
    BY DEF Merge
  <1>2. raw[o] \in {Base(o), Result(o)}
    BY <1>0, <1>1 DEF IInv, Merging
  <1> HIDE DEF N
  <1>3. CASE cmd[o] = "bad"
    <2>1. Fail("Parse")
      BY <1>1, <1>3 DEF MergeOption
    <2> QED BY <2>1, FailInv
  <1>4. CASE /\ cmd[o] = "absent" /\ IsRequired(program, o)
             /\ raw[o] = "none"
    <2>1. Fail("MissingOption")
      BY <1>1, <1>4 DEF MergeOption
    <2>2. Base(o) = "none"
      BY <1>2, <1>4 DEF Result
    <2>3. TypeOK'
      BY <2>1 DEF IInv, TypeOK, Fail, input
    <2> QED
      BY <1>0, <1>4, <2>1, <2>2, <2>3
      DEF IInv, Fail, input, Merging, Base, FieldOf
  <1>5. CASE /\ cmd[o] # "bad"
             /\ cmd[o] = "good" \/ (IsRequired(program, o) => raw[o] # "none")
    <2>1. /\ raw' = [raw EXCEPT ![o] = IF cmd[o] = "good" THEN "cmd" ELSE @]
          /\ at' = at + 1
          /\ UNCHANGED <<program, cmd, other, path, sections, file, pc, error>>
      BY <1>1, <1>5 DEF MergeOption, Fail, input
    <2>2. raw \in [OptionSet(program) -> RawValue]
      BY DEF IInv, TypeOK
    <2>3. raw' \in [OptionSet(program) -> RawValue]
      BY <1>0, <2>1, <2>2 DEF RawValue
    <2>4. at' \in 1..N + 1
      BY <1>0, <2>1
    <2>5. TypeOK'
      BY <2>1, <2>3, <2>4 DEF IInv, TypeOK, N
    <2>6. \A q \in OptionSet(program) :
              Base(q)' = Base(q) /\ Result(q)' = Result(q)
      BY <2>1 DEF Base, Result, FieldOf
    <2>7. /\ raw'[o] = Result(o)
          /\ \A q \in OptionSet(program) : q # o => raw'[q] = raw[q]
      BY <1>0, <1>2, <2>1, <2>2 DEF Result
    <2>8. \A q \in OptionSet(program) : raw'[q] \in {Base(q), Result(q)}
      BY <1>1, <2>7 DEF IInv, Merging
    <2>9. Settled(o)'
      BY <1>0, <1>1, <1>5, <2>1, <2>2, <2>6, <2>7 DEF Settled
    <2>10. \A q \in OptionSet(program) : q # o /\ Settled(q) => Settled(q)'
      BY <2>1, <2>6, <2>7 DEF Settled
    <2>11. \A i \in 1..N : i < at' => Settled(Order(program)[i])'
      <3> SUFFICES ASSUME NEW i \in 1..N, i < at',
                          NEW q \in OptionSet(program), q = Order(program)[i]
                   PROVE  Settled(q)'
        BY <1>0, <2>1 DEF Settled, Result, Base, FieldOf
      <3>1. CASE q = o
        BY <2>9, <3>1
      <3>2. CASE q # o
        <4>1. i < at
          BY <1>0, <2>1, <3>2
        <4>2. Settled(q)
          BY <1>1, <4>1 DEF IInv, Merging, N
        <4> QED BY <2>10, <3>2, <4>2
      <3> QED BY <3>1, <3>2
    <2>12. (path # "missing" /\ (path = "file" => ~BadFile))'
      BY <1>1, <2>1 DEF IInv, Merging, BadFile
    <2>13. (error = "MissingOption")' =>
             \E q \in OptionSet(program) :
               IsRequired(program, q) /\ cmd[q] = "absent" /\ Base(q) = "none"
      BY <2>1 DEF IInv
    <2> QED
      BY <1>1, <2>1, <2>5, <2>6, <2>8, <2>11, <2>12, <2>13 DEF IInv, N
  <1> QED
    BY <1>0, <1>1, <1>3, <1>4, <1>5 DEF MergeOption, Fail

\* The end of parse, and Config::parse.
LEMMA BuildInv == IInv /\ (Merged \/ Build) => IInv'
  <1> SUFFICES ASSUME IInv, Merged \/ Build PROVE IInv'
    OBVIOUS
  <1>1. CASE pc' = "error"
    BY <1>1, FailInv DEF Merged, Build, Fail
  <1>2. CASE pc' # "error"
    <2>1. /\ pc \in {"merge", "build"} /\ pc' \in {"build", "ok"}
          /\ at > Len(Order(program))
          /\ UNCHANGED <<program, cmd, other, path, sections, file, raw, at,
                         error>>
      BY <1>2 DEF Merged, Build, Fail, input, IInv
    <2>2. TypeOK'
      BY <2>1 DEF IInv, TypeOK
    <2> QED
      BY <2>1, <2>2 DEF IInv, Merging, Settled, Base, Result, FieldOf, BadFile
  <1> QED BY <1>1, <1>2

\* The inductive invariant of parse, for every command line and file.
THEOREM Invariant == Spec => []IInv
  <1>1. IInv /\ [Next]_vars => IInv'
    <2> SUFFICES ASSUME IInv, UNCHANGED vars PROVE IInv'
      BY ReadInv, MergeInv, BuildInv DEF Next
    <2>1. TypeOK'
      BY DEF vars, IInv, TypeOK
    <2> QED
      BY <2>1 DEF vars, IInv, Merging, Settled, Base, Result, FieldOf, BadFile
  <1> HIDE DEF IInv
  <1> QED BY <1>1, InitInv, PTL DEF Spec

\* Once parse is through, every option is settled.
LEMMA AllSettled ==
  ASSUME IInv, pc \in {"build", "ok"}
  PROVE  /\ raw \in [OptionSet(program) -> RawValue]
         /\ \A o \in OptionSet(program) : Settled(o)
  <1>1. program \in Program /\ at \in 1..Len(Order(program)) + 1
        /\ at > Len(Order(program))
    BY DEF IInv, TypeOK
  <1>2. Len(Order(program)) \in Nat
    BY <1>1, OrderSeq
  <1>3. \A i \in 1..Len(Order(program)) : Settled(Order(program)[i])
    BY <1>1, <1>2 DEF IInv, Merging
  <1> QED BY <1>3 DEF OptionSet, IInv, TypeOK

\* An accepted configuration takes each option from the command line, or else
\* from the file, or else from the defaults: for every input of either program.
THEOREM PrecedenceSafe == Spec => []Precedence
  <1>1. IInv => Precedence
    <2> SUFFICES ASSUME IInv, pc = "ok", NEW o \in DOMAIN raw
                 PROVE  raw[o] = Expected(o)
      BY DEF Precedence
    <2>1. o \in OptionSet(program) /\ Settled(o)
      BY AllSettled
    <2>2. path = "file" => file[o] # "bad"
      BY <2>1 DEF IInv, Merging, BadFile, TypeOK
    <2> QED
      BY <2>1, <2>2 DEF Settled, Result, Base, Expected, FieldOf, DefaultOf,
         NoDefault, IInv, TypeOK, FileValue
  <1> QED BY <1>1, Invariant, PTL

\* Config::parse never unwraps None, for every input of either program.
THEOREM UnwrapSafeAlways == Spec => []UnwrapSafe
  <1>1. IInv => UnwrapSafe
    BY AllSettled DEF UnwrapSafe, Settled
  <1> QED BY <1>1, Invariant, PTL

\* MissingOption is returned only when a required option is given nowhere.
THEOREM MissingSafe == Spec => []MissingIsMissing
  <1>1. IInv => MissingIsMissing
    <2> SUFFICES ASSUME IInv, error = "MissingOption"
                 PROVE  MissingIsMissing
      BY DEF MissingIsMissing
    <2>1. PICK o \in OptionSet(program) :
            IsRequired(program, o) /\ cmd[o] = "absent" /\ Base(o) = "none"
      BY DEF IInv
    <2>2. o \in DOMAIN raw
      BY DEF IInv, TypeOK
    <2>3. path = "file" => file[o] # "good"
      BY <2>1 DEF Base, FieldOf
    <2> QED BY <2>1, <2>2, <2>3 DEF MissingIsMissing
  <1> QED BY <1>1, Invariant, PTL

\* No bad value in the command line or the file that was read, no option given
\* twice and no missing section is passed over.
THEOREM NothingOverlookedSafe == Spec => []NothingOverlooked
  <1>1. IInv => NothingOverlooked
    <2> SUFFICES ASSUME IInv, pc = "ok" PROVE NothingOverlooked
      BY DEF NothingOverlooked
    <2>1. \A o \in DOMAIN cmd : cmd[o] # "bad" /\ cmd[o] # "twice"
      BY AllSettled, ZenonT(40) DEF IInv, TypeOK, Settled
    <2> QED BY <2>1 DEF NothingOverlooked, IInv, Merging, BadFile
  <1> QED BY <1>1, Invariant, PTL
=============================================================================
