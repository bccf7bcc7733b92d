------------------------------ MODULE SyncStep ------------------------------
(***************************************************************************)
(* The sync-step monitor over FIFOs: one controller                        *)
(* (scripts/monitor/monitor_sync_bin.py) and N participants that run the   *)
(* same program, each the run time's side of the wire                      *)
(* (src/runtime/snobol4/snobol4.c).  A participant writes a record to its  *)
(* ready FIFO and reads a one-byte answer from its go FIFO; the controller *)
(* reads one event from each in turn, compares them with the first         *)
(* participant's, and answers 'G' or 'S'.                                  *)
(*                                                                         *)
(* A pipe holds tokens: the header of a record, then `len' pieces of its   *)
(* value.  Programs say any events; `said', `pos', `torn' and `killed'     *)
(* are kept for the properties only.                                       *)
(***************************************************************************)
EXTENDS Naturals, Sequences, FiniteSets

CONSTANTS
    N,              \* participants 1 .. N; 1 is the oracle
    Events,         \* what a program can say: [kind, name, type, val, len]
    MaxEvents,      \* bound: events of one program before its END
    PipeCap,        \* tokens a FIFO holds
    PipeBuf,        \* records of at most this many tokens are written whole or not at all
    JunkRecords,    \* what value bytes can look like when read as a header
    Keywords,       \* the names that begin with '&'
    WILDCARD_NAMES_PARTICIPANTS,
    SkipModes,      \* what MONITOR_SKIP_EXTRA_KEYWORD_VALUES may be set to
    SKIP_MAX_PER_STEP

P == 1 .. N

NoName  == ""                   \* MW_NAME_ID_NONE, resolved
Lval    == <<"<lval>">>
Junk    == "junk"               \* the value of a record whose bytes are not its own
END     == [kind |-> "END", name |-> NoName, type |-> "NULL", val |-> "", len |-> 0]
Eof     == [kind |-> "EOF", id |-> 0, type |-> "NULL", val |-> ""]
Err     == [Eof EXCEPT !.kind = "ERR"]
Nothing == [Eof EXCEPT !.kind = "NONE"]

ASSUME SyncAssumption ==
    /\ N \in Nat \ {0} /\ MaxEvents \in Nat /\ PipeCap \in Nat \ {0} /\ PipeBuf \in Nat
    /\ \A e \in Events : DOMAIN e = DOMAIN END /\ e.len \in Nat
    /\ \A e \in Events : e.kind \notin {"END", "NAME_DEF", "EOF", "ERR", "NONE"}
    /\ \A r \in JunkRecords : r.len \in Nat /\ r.id \in Nat
    /\ SkipModes \subseteq BOOLEAN /\ SKIP_MAX_PER_STEP \in Nat

VARIABLES
    pc, nonblock, interned, todo, out,      \* each participant's
    ready, go,                              \* the FIFOs
    cpc, ci, rd, cur, names, skip, rc,      \* the controller's
    said, pos, torn, killed                 \* histories

participant == <<pc, nonblock, interned, todo, out>>
controller  == <<cpc, ci, rd, cur, names, skip, rc>>
history     == <<said, pos, torn, killed>>
vars == <<participant, ready, go, controller, history>>

Gone(p) == pc[p] = "exited"
Room(p) == PipeCap - Len(ready[p])

-----------------------------------------------------------------------------
(* Records.                                                                *)

Tokens(r) == [i \in 1 .. r.len + 1 |-> [rec |-> r, at |-> i - 1]]

Id(p, name, table) == CHOOSE i \in DOMAIN table : table[i] = name
Known(p, name) == name = NoName \/ \E i \in DOMAIN interned[p] : interned[p][i] = name

NameDef(id, name) ==
    [kind |-> "NAME_DEF", id |-> id, type |-> "STRING", val |-> name, len |-> 1]
Wire(e, id) == [kind |-> e.kind, id |-> id, type |-> e.type, val |-> e.val, len |-> e.len]

\* The event a record of p stands for.
EventOf(p, r) == [kind |-> r.kind, name |-> IF r.id = 0 THEN NoName ELSE interned[p][r.id],
                  type |-> r.type, val |-> r.val]

\* name_for_id, and the key an event is compared by.
name_for_id(p, id) == IF id = 0 THEN <<NoName>>
                      ELSE IF id \in DOMAIN names[p] THEN <<names[p][id]>> ELSE <<"id", id>>
event_key(p, ev) == [kind |-> ev.kind, name |-> name_for_id(p, ev.id),
                     type |-> ev.type, val |-> ev.val]

keys_match(a, b, a_name_wild, b_name_wild) ==
    LET unknown_present == "UNKNOWN" \in {a.type, b.type} IN
    /\ a.kind = b.kind
    /\ unknown_present \/ (a.val = b.val /\ a.type = b.type)
    /\ a.name = b.name \/ Lval \in {a.name, b.name} \/ a_name_wild \/ b_name_wild

-----------------------------------------------------------------------------
(* Opening.  Each open of a FIFO waits for the other side's: open_pair     *)
(* opens one participant's pair after the other's.  The participant's      *)
(* O_NONBLOCK open succeeds, and stays non-blocking, when the controller   *)
(* is waiting already; else its second, blocking open waits.               *)

Init ==
    /\ pc = [p \in P |-> "openReady"] /\ nonblock = [p \in P |-> FALSE]
    /\ interned = [p \in P |-> <<>>]
    /\ todo = [p \in P |-> <<>>] /\ out = [p \in P |-> <<>>]
    /\ ready = [p \in P |-> <<>>] /\ go = [p \in P |-> <<>>]
    /\ cpc = "openReady" /\ ci = 1 /\ cur = [p \in P |-> Nothing]
    /\ rd = [rec |-> NameDef(0, NoName), got |-> 0, whole |-> TRUE]
    /\ names = [p \in P |-> <<>>]
    /\ skip \in [allowed : SkipModes, on : {FALSE}, left : {[p \in P |-> 0]}, moved : {FALSE}]
    /\ rc = 0
    /\ said = [p \in P |-> <<>>] /\ pos = [p \in P |-> 0] /\ torn = {} /\ killed = {}

OpenReady ==
    /\ cpc = "openReady" /\ pc[ci] = "openReady"
    /\ \E first \in BOOLEAN : nonblock' = [nonblock EXCEPT ![ci] = first]
    /\ pc' = [pc EXCEPT ![ci] = "openGo"] /\ cpc' = "openGo"
    /\ UNCHANGED <<interned, todo, out, ready, go, ci, rd, cur, names, skip, rc, history>>

OpenGo ==
    /\ cpc = "openGo" /\ pc[ci] = "openGo"
    /\ pc' = [pc EXCEPT ![ci] = "run"]
    /\ IF ci < N THEN cpc' = "openReady" /\ ci' = ci + 1 ELSE cpc' = "header" /\ ci' = 1
    /\ UNCHANGED <<nonblock, interned, todo, out, ready, go, rd, cur, names, skip, rc, history>>

-----------------------------------------------------------------------------
(* A participant.                                                          *)

\* Mutant: a new name is interned and not announced.
EmitUnannounced(p, e) ==
    /\ pc[p] = "run" /\ Len(said[p]) < MaxEvents
    /\ LET table == IF Known(p, e.name) THEN interned[p] ELSE Append(interned[p], e.name)
           rec   == Wire(e, IF e.name = NoName THEN 0 ELSE Id(p, e.name, table))
       IN /\ interned' = [interned EXCEPT ![p] = table]
          /\ todo' = [todo EXCEPT ![p] = <<rec>>]
          /\ out'  = [out EXCEPT ![p] = Tokens(rec)]
    /\ pc' = [pc EXCEPT ![p] = "write"]
    /\ UNCHANGED <<nonblock, ready, go, controller, history>>

\* comm_var, comm_call, comm_return, mon_emit_label_bin: the name is interned, and a
\* new one is announced first by a record of its own.
Emit(p, e) ==
    /\ pc[p] = "run" /\ Len(said[p]) < MaxEvents
    /\ LET table == IF Known(p, e.name) THEN interned[p] ELSE Append(interned[p], e.name)
           id    == IF e.name = NoName THEN 0 ELSE Id(p, e.name, table)
           recs  == IF Known(p, e.name) THEN <<Wire(e, id)>>
                    ELSE <<NameDef(id, e.name), Wire(e, id)>>
       IN /\ interned' = [interned EXCEPT ![p] = table]
          /\ todo' = [todo EXCEPT ![p] = recs]
          /\ out'  = [out EXCEPT ![p] = Tokens(recs[1])]
    /\ pc' = [pc EXCEPT ![p] = "write"]
    /\ UNCHANGED <<nonblock, ready, go, controller, history>>

\* Mutant: the next record is not made ready to be written.
NextRecordKeepsOut(p) ==
    LET rest == Tail(todo[p]) IN
    /\ todo' = [todo EXCEPT ![p] = rest]
    /\ pc'   = [pc EXCEPT ![p] = IF rest = <<>> THEN "run" ELSE "write"]
    /\ UNCHANGED out

\* mon_send_bin returns for the record at the head of todo.
NextRecord(p) ==
    LET rest == Tail(todo[p]) IN
    /\ todo' = [todo EXCEPT ![p] = rest]
    /\ IF rest = <<>> THEN /\ pc' = [pc EXCEPT ![p] = "run"]
                           /\ out' = [out EXCEPT ![p] = <<>>]
                      ELSE /\ pc' = [pc EXCEPT ![p] = "write"]
                           /\ out' = [out EXCEPT ![p] = Tokens(rest[1])]

\* The record at the head of todo has been written, or given up.
Said(p) ==
    said' = IF todo[p][1].kind = "NAME_DEF" THEN said
            ELSE [said EXCEPT ![p] = Append(@, EventOf(p, todo[p][1]))]

\* writev on a FIFO in blocking mode: a piece at a time, as the reader makes room.
WriteBlocking(p) ==
    /\ pc[p] = "write" /\ ~nonblock[p] /\ cpc # "done" /\ Room(p) > 0
    /\ ready' = [ready EXCEPT ![p] = Append(@, Head(out[p]))]
    /\ out'   = [out EXCEPT ![p] = Tail(@)]
    /\ IF Len(out[p]) = 1 THEN pc' = [pc EXCEPT ![p] = "ack"] /\ Said(p)
                          ELSE UNCHANGED <<pc, said>>
    /\ UNCHANGED <<nonblock, interned, todo, go, controller, pos, torn, killed>>

\* writev on a FIFO in non-blocking mode: what fits now.
WriteWhole(p) ==
    /\ pc[p] = "write" /\ nonblock[p] /\ cpc # "done" /\ Len(out[p]) <= Room(p)
    /\ ready' = [ready EXCEPT ![p] = @ \o out[p]]
    /\ out'   = [out EXCEPT ![p] = <<>>]
    /\ pc'    = [pc EXCEPT ![p] = "ack"]
    /\ Said(p)
    /\ UNCHANGED <<nonblock, interned, todo, go, controller, pos, torn, killed>>

\* ... and mon_send_bin returns without reading an answer when that is not all.
WriteTorn(p) ==
    /\ pc[p] = "write" /\ nonblock[p] /\ cpc # "done" /\ Len(out[p]) > Room(p)
    /\ LET fits == IF Len(out[p]) <= PipeBuf THEN 0 ELSE Room(p)
       IN ready' = [ready EXCEPT ![p] = @ \o SubSeq(out[p], 1, fits)]
    /\ torn' = torn \cup {p}
    /\ NextRecord(p) /\ Said(p)
    /\ UNCHANGED <<nonblock, interned, go, controller, pos, killed>>

Exit(p) ==
    /\ pc'   = [pc EXCEPT ![p] = "exited"]
    /\ todo' = [todo EXCEPT ![p] = <<>>] /\ out' = [out EXCEPT ![p] = <<>>]

\* mon_at_exit: the END record is written if it goes in; nobody waits for an answer.
AtExit(p) == ready' = IF cpc # "done" /\ Room(p) > 0
                      THEN [ready EXCEPT ![p] = Append(@, Tokens(Wire(END, 0))[1])] ELSE ready

AckGo(p) ==
    /\ pc[p] = "ack" /\ go[p] # <<>> /\ Head(go[p]) = "G"
    /\ go' = [go EXCEPT ![p] = Tail(@)]
    /\ NextRecord(p)
    /\ UNCHANGED <<nonblock, interned, ready, controller, history>>

AckStop(p) ==
    /\ pc[p] = "ack" /\ go[p] # <<>> /\ Head(go[p]) = "S"
    /\ go' = [go EXCEPT ![p] = Tail(@)]
    /\ Exit(p) /\ AtExit(p)
    /\ UNCHANGED <<nonblock, interned, controller, history>>

\* Mutant: the go FIFO is held open by the participant itself: its read never ends.
HangUpWriteOnly(p) ==
    /\ cpc = "done" /\ pc[p] = "write"
    /\ Exit(p)
    /\ UNCHANGED <<nonblock, interned, ready, go, controller, history>>

\* The controller has closed the FIFOs: a read sees the end of the file, a write is killed by
\* SIGPIPE, and exit writes nothing.
HangUp(p) ==
    /\ cpc = "done" /\ \/ pc[p] = "ack" /\ go[p] = <<>>
                       \/ pc[p] = "write"
    /\ Exit(p)
    /\ UNCHANGED <<nonblock, interned, ready, go, controller, history>>

\* The program ends; in blocking mode exit waits for room.
Finish(p) ==
    /\ pc[p] = "run" /\ (nonblock[p] \/ cpc = "done" \/ Room(p) > 0)
    /\ Exit(p) /\ AtExit(p)
    /\ said' = [said EXCEPT ![p] = Append(@, EventOf(p, Wire(END, 0)))]
    /\ UNCHANGED <<nonblock, interned, go, controller, pos, torn, killed>>

\* A crash, or the harness's `timeout': no END.
Kill(p) ==
    /\ ~Gone(p) /\ Exit(p) /\ killed' = killed \cup {p}
    /\ UNCHANGED <<nonblock, interned, ready, go, controller, said, pos, torn>>

-----------------------------------------------------------------------------
(* The controller.                                                         *)

controlled == <<participant, said, torn, killed>>    \* what its steps leave alone

Exited(code) == cpc' = "done" /\ rc' = code
StopAll(code) == cpc' = "stop" /\ ci' = 1 /\ rc' = code

\* Write a byte to the go FIFO of ci, if there is still a reader.
Tell(byte) == go' = IF Gone(ci) THEN go ELSE [go EXCEPT ![ci] = Append(@, byte)]

\* The for loop over the participants: the next one is read, or the reading is over.
AfterRead ==
    /\ IF ~skip.on
       THEN IF ci < N THEN cpc' = "header" /\ ci' = ci + 1 ELSE cpc' = "judge" /\ ci' = 1
       ELSE IF ci < N /\ cur'[ci].kind # "EOF" THEN cpc' = "skip" /\ ci' = ci + 1
            ELSE cpc' = "recheck" /\ ci' = 1

\* Mutant: every record is answered when it is read.
ReceiveAnswersAll(r, val) ==
    /\ Tell("G") /\ UNCHANGED skip
    /\ IF r.kind = "NAME_DEF"
       THEN /\ names' = [names EXCEPT ![ci] =
                        [i \in DOMAIN @ \cup {r.id} |-> IF i = r.id THEN val ELSE @[i]]]
            /\ cpc' = "header" /\ UNCHANGED <<ci, cur>>
       ELSE /\ cur' = [cur EXCEPT ![ci] = [kind |-> r.kind, id |-> r.id, type |-> r.type, val |-> val]]
            /\ AfterRead /\ UNCHANGED names

\* read_semantic_record has a whole record: a NAME_DEF is kept and answered at once.
Receive(r, val) ==
    IF r.kind = "NAME_DEF"
    THEN /\ names' = [names EXCEPT ![ci] =
                        [i \in DOMAIN @ \cup {r.id} |-> IF i = r.id THEN val ELSE @[i]]]
         /\ Tell("G")
         /\ IF Gone(ci) THEN cur' = [cur EXCEPT ![ci] = Eof] /\ AfterRead
                        ELSE cpc' = "header" /\ UNCHANGED <<ci, cur>>
         /\ UNCHANGED skip
    ELSE /\ cur' = [cur EXCEPT ![ci] = [kind |-> r.kind, id |-> r.id, type |-> r.type, val |-> val]]
         /\ skip' = IF skip.on THEN [skip EXCEPT !.left[ci] = @ - 1, !.moved = TRUE] ELSE skip
         /\ AfterRead
         /\ UNCHANGED <<names, go>>

\* read_record: a header, then its value.  Bytes that are not a header are taken for one.
ReadHeader ==
    /\ cpc = "header" /\ ready[ci] # <<>>
    /\ ready' = [ready EXCEPT ![ci] = Tail(@)]
    /\ \E r \in IF Head(ready[ci]).at = 0 THEN {Head(ready[ci]).rec} ELSE JunkRecords :
        /\ rd' = [rec |-> r, got |-> 0, whole |-> TRUE]
        /\ IF r.len = 0 THEN Receive(r, r.val)
                        ELSE cpc' = "value" /\ UNCHANGED <<ci, cur, names, skip, go>>
    /\ UNCHANGED <<controlled, rc, pos>>

ReadValue ==
    /\ cpc = "value" /\ ready[ci] # <<>>
    /\ ready' = [ready EXCEPT ![ci] = Tail(@)]
    /\ LET t == Head(ready[ci])
           ok == rd.whole /\ t.rec = rd.rec /\ t.at = rd.got + 1
       IN /\ rd' = [rd EXCEPT !.got = @ + 1, !.whole = ok]
          /\ IF rd.got + 1 = rd.rec.len THEN Receive(rd.rec, IF ok THEN rd.rec.val ELSE Junk)
                                        ELSE UNCHANGED <<cpc, ci, cur, names, skip, go>>
    /\ UNCHANGED <<controlled, rc, pos>>

\* Mutant: the end of the file in the middle of a value is not seen.
ReadEofHeaderOnly ==
    /\ cpc = "header" /\ ready[ci] = <<>> /\ Gone(ci)
    /\ cur' = [cur EXCEPT ![ci] = Eof]
    /\ AfterRead
    /\ UNCHANGED <<controlled, ready, go, rd, names, skip, rc, pos>>

\* The end of the file before a header is None, in a value a ValueError.
ReadEof ==
    /\ cpc \in {"header", "value"} /\ ready[ci] = <<>> /\ Gone(ci)
    /\ cur' = [cur EXCEPT ![ci] = IF cpc = "header" THEN Eof ELSE Err]
    /\ IF skip.on /\ cpc = "value" THEN Exited(3) /\ UNCHANGED ci ELSE AfterRead /\ UNCHANGED rc
    /\ UNCHANGED <<controlled, ready, go, rd, names, skip, pos>>

Kinds == {cur[p].kind : p \in P}
\* Mutant: the last participant is not compared.
AgreedButLast == \A p \in P \ {1, N} : keys_match(event_key(p, cur[p]), event_key(1, cur[1]),
                                                  p \in WILDCARD_NAMES_PARTICIPANTS, FALSE)
Agreed == \A p \in P \ {1} : /\ cur[p].kind # "EOF"
                             /\ keys_match(event_key(p, cur[p]), event_key(1, cur[1]),
                                           p \in WILDCARD_NAMES_PARTICIPANTS,
                                           1 \in WILDCARD_NAMES_PARTICIPANTS)
StartSkip == skip' = [skip EXCEPT !.on = TRUE, !.left = [p \in P |-> SKIP_MAX_PER_STEP],
                                  !.moved = FALSE]
GoAll == /\ cpc' = "go" /\ ci' = 1 /\ pos' = [p \in P |-> pos[p] + 1]
         /\ skip' = [skip EXCEPT !.on = FALSE] /\ UNCHANGED rc

\* One event, or none, from every participant: the verdict on this step.
JudgeError == "ERR" \in Kinds /\ StopAll(3) /\ UNCHANGED <<skip, pos>>
JudgeEnded == Kinds = {"EOF"} /\ Exited(0) /\ UNCHANGED <<ci, skip, pos>>
JudgePartial == /\ "ERR" \notin Kinds /\ "EOF" \in Kinds /\ Kinds # {"EOF"}
                /\ StopAll(1) /\ UNCHANGED <<skip, pos>>
JudgeAgree == Kinds \cap {"ERR", "EOF"} = {} /\ Agreed /\ GoAll
JudgeDiffer == /\ Kinds \cap {"ERR", "EOF"} = {} /\ ~Agreed
               /\ IF skip.allowed
                  THEN StartSkip /\ cpc' = "skip" /\ ci' = 1 /\ UNCHANGED rc
                  ELSE StopAll(1) /\ UNCHANGED skip
               /\ UNCHANGED pos
Judge == /\ cpc = "judge"
         /\ JudgeError \/ JudgeEnded \/ JudgePartial \/ JudgeAgree \/ JudgeDiffer
         /\ UNCHANGED <<controlled, ready, go, rd, cur, names>>

\* MONITOR_SKIP_EXTRA_KEYWORD_VALUES: a participant whose event is a keyword's VALUE is answered
\* and read again on its own.
IsKeywordValue(p) == /\ cur[p].kind = "VALUE"
                     /\ name_for_id(p, cur[p].id) \in {<<k>> : k \in Keywords}
CanSkip(p) == IsKeywordValue(p) /\ skip.left[p] > 0
SkipVisit ==
    /\ cpc = "skip"
    /\ IF CanSkip(ci)
       THEN IF Gone(ci) THEN Exited(2) /\ UNCHANGED <<go, pos, ci>>
            ELSE /\ Tell("G") /\ pos' = [pos EXCEPT ![ci] = @ + 1]
                 /\ cpc' = "header" /\ UNCHANGED <<ci, rc>>
       ELSE /\ IF ci < N THEN ci' = ci + 1 /\ UNCHANGED cpc ELSE cpc' = "recheck" /\ ci' = 1
            /\ UNCHANGED <<go, pos, rc>>
    /\ UNCHANGED <<controlled, ready, rd, cur, names, skip>>

\* After a round of skipping: compare again, go round again, or report.  Reporting an event that
\* is not there (None) raises: the process exits with 1 and nobody is told to stop.
Recheck ==
    /\ cpc = "recheck"
    /\ LET surface == ~skip.moved \/ cur[1].kind = "EOF"
           again   == cpc' = "skip" /\ ci' = 1 /\ skip' = [skip EXCEPT !.moved = FALSE]
       IN \/ /\ surface /\ UNCHANGED <<skip, pos>>
             /\ IF "EOF" \in Kinds THEN Exited(1) /\ UNCHANGED ci ELSE StopAll(1)
          \/ ~surface /\ Agreed /\ GoAll
          \/ ~surface /\ ~Agreed /\ again /\ UNCHANGED <<rc, pos>>
    /\ UNCHANGED <<controlled, ready, go, rd, cur, names>>

\* 'G' to everyone; a participant that is gone is a divergence, except at the END.
SendGo ==
    /\ cpc = "go"
    /\ LET end == cur[1].kind = "END" IN
       IF Gone(ci) /\ ~end THEN Exited(1) /\ UNCHANGED <<go, ci, cur>>
       ELSE /\ Tell("G")
            /\ IF ci < N THEN ci' = ci + 1 /\ UNCHANGED <<cpc, rc, cur>>
               ELSE IF end THEN Exited(0) /\ UNCHANGED <<ci, cur>>
               ELSE cpc' = "header" /\ ci' = 1 /\ cur' = [p \in P |-> Nothing] /\ UNCHANGED rc
    /\ UNCHANGED <<controlled, ready, rd, names, skip, pos>>

SendStop ==
    /\ cpc = "stop" /\ Tell("S")
    /\ IF ci < N THEN ci' = ci + 1 /\ UNCHANGED cpc ELSE cpc' = "done" /\ UNCHANGED ci
    /\ UNCHANGED <<controlled, ready, rd, cur, names, skip, rc, pos>>

-----------------------------------------------------------------------------
Controller == \/ OpenReady \/ OpenGo \/ ReadHeader \/ ReadValue \/ ReadEof
              \/ Judge \/ SkipVisit \/ Recheck \/ SendGo \/ SendStop
Moves(p) == \/ \E e \in Events : Emit(p, e)
            \/ WriteBlocking(p) \/ WriteWhole(p) \/ WriteTorn(p)
            \/ AckGo(p) \/ AckStop(p) \/ HangUp(p) \/ Finish(p)

Next == Controller \/ \E p \in P : Moves(p) \/ Kill(p)
Spec == Init /\ [][Next]_vars

\* The operating system runs every process, and the programs end.  Nothing is assumed of Kill.
FairSpec == Spec /\ WF_vars(Controller) /\ \A p \in P : WF_vars(Moves(p))

-----------------------------------------------------------------------------
\* The state is well typed; a participant has at most a NAME_DEF and its event to send.
TypeOK ==
    /\ pc \in [P -> {"openReady", "openGo", "run", "write", "ack", "exited"}]
    /\ nonblock \in [P -> BOOLEAN]
    /\ \A p \in P : /\ Len(todo[p]) <= 2 /\ Len(ready[p]) <= PipeCap
                    /\ pc[p] \in {"write", "ack"} <=> todo[p] # <<>>
                    /\ pc[p] = "write" <=> out[p] # <<>>
    /\ cpc \in {"openReady", "openGo", "header", "value", "judge", "skip", "recheck",
                "go", "stop", "done"}
    /\ ci \in P /\ rc \in 0 .. 3
    /\ torn \subseteq P /\ killed \subseteq P

\* "A participant cannot run ahead of the controller because each ack is one-record-at-a-time"
\* (monitor_sync_bin.py:158): however announcements of names, blocking writes in pieces and
\* skipped keywords interleave, a participant whose writes went through has said at most one
\* event the controller has not accounted for, and none while it runs.
AheadByOne ==
    \A p \in P \ torn : /\ Len(said[p]) <= pos[p] + 1
                        /\ pc[p] \in {"run", "write"} => Len(said[p]) = pos[p]

\* What the controller compares is what the program said: the pieces of a record are put
\* together with none of another's, and its id, private to the participant, resolves to the name
\* the program used, since the NAME_DEF came first and was kept.
HeldIsSaid ==
    \A p \in P \ torn :
        /\ cpc \in {"judge", "recheck"} /\ cur[p].kind # "EOF" /\ cur[p].kind # "ERR"
        => /\ Len(said[p]) = pos[p] + 1
           /\ event_key(p, cur[p]) = [said[p][Len(said[p])] EXCEPT !.name = <<@>>]

\* Every verdict is Lockstep's: the programs pass only if everything each of them said agreed
\* with the oracle's, step by step, or was a skipped keyword; they diverge only if some pair of
\* events really differs or a participant was lost; and no program is let past an event before
\* all have said theirs.
Monitor == INSTANCE Lockstep WITH
    Programs  <- P,
    Agrees    <- LAMBDA p, e, o : keys_match([e EXCEPT !.name = <<@>>], [o EXCEPT !.name = <<@>>],
                                             p \in WILDCARD_NAMES_PARTICIPANTS,
                                             1 \in WILDCARD_NAMES_PARTICIPANTS),
    Skippable <- LAMBDA e : e.kind = "VALUE" /\ e.name \in Keywords,
    loose     <- torn,
    verdict   <- IF cpc = "done" THEN rc ELSE 4
Implements == Monitor!Spec

\* The controller ends, whoever is killed and whatever is cut short, unless a participant died
\* before the controller had opened its FIFOs: those opens wait for ever.
ControllerEnds ==
    <>(cpc = "done" \/ (cpc \in {"openReady", "openGo"} /\ \E p \in killed : ci <= p))

\* Nobody is left waiting for an answer: when the controller has ended every participant ends,
\* those it told and those it did not.
ParticipantsReleased == cpc = "done" ~> \A p \in P : Gone(p)

\* "0   all participants reached END agreeing on every event" (monitor_sync_bin.py:29).
PassMeansEnd ==
    cpc = "done" /\ rc = 0 => \A p \in P : said[p] # <<>> /\ said[p][Len(said[p])].kind = "END"
=============================================================================
