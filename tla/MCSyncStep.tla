----------------------------- MODULE MCSyncStep -----------------------------
(***************************************************************************)
(* Two participants whose programs say up to two events: a variable's      *)
(* value, another value of it that is larger than the pipe, a keyword's    *)
(* value, and a value of a type the wire does not know.                    *)
(***************************************************************************)
EXTENDS SyncStep

Value(name, type, val, len) ==
    [kind |-> "VALUE", name |-> name, type |-> type, val |-> val, len |-> len]
MCEvents == {Value("x", "S", "1", 1), Value("x", "S", "2", PipeCap),
             Value("&k", "S", "1", 0), Value("y", "UNKNOWN", "", 0)}
MCJunkRecords == {[kind |-> "VALUE", id |-> 1, type |-> "S", val |-> Junk, len |-> 0],
                  [kind |-> "NAME_DEF", id |-> 1, type |-> "S", val |-> Junk, len |-> 1]}
=============================================================================
