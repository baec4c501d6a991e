------------------------------ MODULE MCConfig ------------------------------
(***************************************************************************)
(* Instances of Config for TLC: every input that differs in at most two    *)
(* places from one that gives the required options, on the command line    *)
(* or in a file, which may lack a section that nothing is given in.        *)
(***************************************************************************)
EXTENDS Config

Given(p, o) == IF IsRequired(p, o) THEN "good" ELSE "absent"

Nothing(p) == [o \in OptionSet(p) |-> "absent"]

Everything(p) == [o \in OptionSet(p) |-> Given(p, o)]

\* A place of the input and a value for it.
Change(p) ==
    ({"cmd"} \X OptionSet(p) \X CmdValue)
        \cup ({"file"} \X OptionSet(p) \X FileValue)

Apply(f, place, c) ==
    IF c[1] = place THEN [f EXCEPT ![c[2]] = c[3]] ELSE f

MCInit ==
    /\ program \in Program
    /\ path \in {"none", "missing", "file"}
    /\ \E c, d \in Change(program), full \in {"cmd", "file"} :
           LET base(place) == IF place = full THEN Everything(program)
                                              ELSE Nothing(program)
           IN  /\ full = "cmd" => path # "file" \/ c = d
               /\ full = "file" => path = "file"
               /\ other \in {"none"} \cup IF c = d THEN OtherArgument ELSE {}
               /\ path # "file" => c[1] = "cmd" /\ d[1] = "cmd"
               /\ cmd = Apply(Apply(base("cmd"), "cmd", c), "cmd", d)
               /\ file = Apply(Apply(base("file"), "file", c), "file", d)
    /\ sections \in SUBSET Sections(program)
    /\ path # "file" => sections = Sections(program)
    /\ Init

MCSpec == MCInit /\ [][Next]_vars
=============================================================================
