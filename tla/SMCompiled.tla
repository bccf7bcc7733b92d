---- MODULE SMCompiled ----
(***************************************************************************)
(* What the programs lower() emits have in common, as far as the machine   *)
(* relies on it without looking: an instruction's operands are those its   *)
(* kind takes, jumps and calls lead to labels, the last instruction is     *)
(* END's, and there is, for every instruction, a number of operands that   *)
(* are on the stack whenever it is reached within a statement.             *)
(***************************************************************************)
EXTENDS SMCalls

CONSTANT Height     \* of each program and instruction: operands present when it is reached

Labelled(code, l) == {p \in DOMAIN code : code[p].op = "LABEL" /\ code[p].x = l}

\* The labels an instruction leads to with an empty stack, and with the stack as it is.
Entries(code, i) ==
    CASE i.op = "CALL"  -> Labelled(code, i.x) \union Labelled(code, Entry[i.x])
      [] i.op = "APPLY" -> Labelled(code, i.x)
      [] i.op \in {"CALL_EXPRESSION", "EVAL"} -> Labelled(code, i.x)
      [] OTHER -> {}
Targets(code, i) == IF i.op \in {"JUMP", "JUMP_S", "JUMP_F"} THEN Labelled(code, i.x) ELSE {}

\* An instruction names what its kind names, and the label it leads to is there.
WellFormed(code, i) ==
    /\ i.op = "LIT" => i.x \in Values
    /\ i.op \in {"VAR", "STORE"} => i.x \in Names
    /\ i.op \in {"CALL", "APPLY"} => i.x \in Functions /\ i.n \in Nat
    /\ i.op \in {"JUMP", "JUMP_S", "JUMP_F"} => Targets(code, i) # {}
    /\ i.op \in {"CALL", "CALL_EXPRESSION", "EVAL"} => Entries(code, i) # {}
    /\ i.op = "RETURN" => i.x \in {"RETURN", "FRETURN", "NRETURN"} \X {"", "S", "F"}

\* What an instruction leaves in place of the operands it takes.
Gives(i) == IF i.op \in {"LIT", "VAR", "IDENT", "STORE", "CALL", "APPLY", "CALL_EXPRESSION", "EVAL"}
            THEN 1 ELSE 0

\* The operands an instruction takes are there, on whichever way it is reached.
Balanced(code, height, p) ==
    /\ Takes(code[p]) <= height[p]
    /\ code[p].op \in {"STNO", "HALT"} => height[p] = 0
    /\ p < Len(code) /\ code[p].op # "JUMP" => height[p + 1] <= height[p] - Takes(code[p]) + Gives(code[p])
    /\ \A q \in Targets(code, code[p]) : height[q] <= height[p]
    /\ \A q \in Entries(code, code[p]) : height[q] = 0

ASSUME CompiledAssumption ==
    \A c \in DOMAIN Programs :
        LET code == Programs[c] IN
        /\ DOMAIN code = 1 .. Len(code) /\ Len(code) \in Nat \ {0}
        /\ Height[c] \in [1 .. Len(code) -> Nat] /\ Height[c][1] = 0
        /\ code[Len(code)].op = "HALT"
        /\ \A p \in 1 .. Len(code) : WellFormed(code, code[p]) /\ Balanced(code, Height[c], p)
====
