------------------------------ MODULE Outputs ------------------------------
(***************************************************************************)
(* The names of the files a recording is written to (platform/outpath.c,   *)
(* core/bus.c: open_action).  A name is a template.  At the start of a     *)
(* recording each output looks which name is free and then creates its     *)
(* file under it; other recorders may create files between the two, so it  *)
(* is the create that claims a name, and the one that loses goes on to the *)
(* next.                                                                   *)
(*                                                                         *)
(* A name is a sequence: what the template expands to, and the numbers put *)
(* behind it ("mix", "mix-2", "mix-2-2").                                  *)
(***************************************************************************)
EXTENDS Naturals, Sequences, FiniteSets

CONSTANT MaxTakes       \* APR_OUT_MAX_TAKES: how far names are counted

ASSUME OutputsAssumption == MaxTakes \in Nat \ {0}

VARIABLES
    disk,       \* files on the disk: who made each
    outs        \* the outputs of this recording, by bus

Takes == 1 .. MaxTakes
Exists(n) == n \in DOMAIN disk

\* apr_out_expand: {n} is the take, {bus} the bus; a template with neither is its own name.
Expand(t, b, take) ==
    CASE t.token = "n"   -> <<t.stem, take>>
      [] t.token = "bus" -> <<t.stem, b>>
      [] OTHER           -> <<t.stem>>

\* The first take is the name itself.
TakeName(base, take) == IF take = 1 THEN base ELSE Append(base, take)

\* The names of a ladder that nobody has, and the first of them.
Free(ladder)      == {k \in Takes : ~Exists(ladder[k])}
FirstFree(ladder) == {k \in Free(ladder) : \A j \in Free(ladder) : k <= j}

Numbered(t) == t.token = "n"

\* Two recordings cannot share a file; takes that are numbered never do.
Duplicates(buses) ==
    \E b, c \in DOMAIN buses :
        /\ b # c /\ ~Numbered(buses[b].out) /\ ~Numbered(buses[c].out)
        /\ Expand(buses[b].out, b, 1) = Expand(buses[c].out, c, 1)

Pending == [state |-> "pending", current |-> <<>>, renamed |-> FALSE, wrote |-> <<>>]

\* apr_out_resolve: {n} is the lowest free number; any other name that is taken is moved
\* aside, and that is remembered to be told.
Ladder(t, b) ==
    [k \in Takes |-> IF Numbered(t) THEN Expand(t, b, k) ELSE TakeName(Expand(t, b, 1), k)]

Resolves(b, t) ==
    /\ outs[b].state = "pending"
    /\ \/ \E k \in FirstFree(Ladder(t, b)) :
            outs' = [outs EXCEPT ![b].state = "named", ![b].current = Ladder(t, b)[k],
                                 ![b].renamed = ~Numbered(t) /\ k # 1]
       \/ /\ Free(Ladder(t, b)) = {}
          /\ outs' = [outs EXCEPT ![b].state = "failed"]
    /\ UNCHANGED disk

\* Mutant of Claims: the file is made under the name that was found free.
Claims_mutant(b) == {outs[b].current}

\* The name a create ends with: the first of the ladder that nobody has.
Claims(b) ==
    LET ladder == [k \in Takes |-> TakeName(outs[b].current, k)]
    IN  {ladder[k] : k \in FirstFree(ladder)}

\* apr_out_open_new, from the encoder's create: the file is made, or the output fails.
\* The name the bus keeps is the one it asked for.
Creates(b) ==
    /\ outs[b].state = "named"
    /\ \/ \E n \in Claims(b) :
            /\ disk' = [m \in DOMAIN disk \cup {n} |-> IF m = n THEN b ELSE disk[m]]
            /\ outs' = [outs EXCEPT ![b].state = "open", ![b].wrote = n]
       \/ /\ outs' = [outs EXCEPT ![b].state = "failed"]
          /\ UNCHANGED disk

\* Another recorder creates a file of its own.
OthersCreate(n) ==
    /\ ~Exists(n)
    /\ disk' = [m \in DOMAIN disk \cup {n} |-> IF m = n THEN 0 ELSE disk[m]]
    /\ UNCHANGED outs

Opened == {b \in DOMAIN outs : outs[b].wrote # <<>>}
Writing == {b \in DOMAIN outs : outs[b].state = "open"}

----------------------------------------------------------------------------
\* A take that is on the disk is never taken over: not by an output of the same
\* recording, and not by another recorder that was told the same name is free
\* (outpath.h: a name that is taken is never overwritten).
NeverOverwritten ==
    [][\A n \in DOMAIN disk : n \in DOMAIN disk' /\ disk'[n] = disk[n]]_<<disk, outs>>

\* The file that is named to the user is the one being written ("nothing is silent about
\* it: the current path reports where the take really went", outpath.h).
ToldWhereItWent ==
    \A b \in Opened : outs[b].wrote = outs[b].current

=============================================================================
