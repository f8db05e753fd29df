----------------------------- MODULE HostSession -----------------------------
(***************************************************************************)
(* The scripts that drive the CPU over the wire: led_blink.py, c_blink.py, *)
(* computation_test.py (coverage_test.py is the same over other programs)  *)
(* and regfile_dump.py, with the helpers of cpu.py they share, against the *)
(* hardware of DebugTarget.  Every driver call is one step: what           *)
(* DriverExchange promises of it.  A call may raise, having been carried   *)
(* out or not; Ctrl-C may cut it short, and then its answer stays on the   *)
(* line and the next call takes it for its own.                            *)
(***************************************************************************)
EXTENDS DebugTarget

CONSTANTS Scripts,         \* which scripts are run
          Programs(_),     \* the programs a script loads one after the other
          Patterns,        \* memory_sanity_check: [cell, data]
          NumRegs,         \* registers dumped
          OldMemory,       \* memory before the session
          Leftovers,       \* answers an earlier, interrupted session left behind
          CallGap,         \* bound: clocks between two calls, at the least
          MaxFaults        \* bound: line failures and Ctrl-Cs

(* Four scripts; programs and test patterns fit into the RAM and none is     *)
(* empty (load_bin and bin_size_check refuse a file that is, or is too big); *)
(* and one answer at most on the line: open flushes what has come, and one   *)
(* interrupted call has one answer still to come.                            *)
ASSUME SessionAssumption ==
    /\ CallGap \in Nat \ {0} /\ MaxFaults \in Nat /\ NumRegs \in Nat \ {0}
    /\ Scripts \subseteq {"led_blink", "c_blink", "computation", "regfile_dump"}
    /\ OldMemory \in [Cells -> Int]
    /\ Patterns \in Seq([cell : Cells, data : Int]) /\ Len(Patterns) > 0
    /\ \A s \in Scripts :
         /\ Programs(s) \in Seq(Seq(Int)) /\ Len(Programs(s)) > 0
         /\ \A n \in DOMAIN Programs(s) :
              Len(Programs(s)[n]) > 0 /\ \A k \in DOMAIN Programs(s)[n] : k - 1 \in Cells
    /\ \A stray \in Leftovers : stray = <<>> \/ stray = <<Head(stray)>>

VARIABLES script, args,    \* the command line: [verify, dump, mem_check, halt, perf, file]
          pc,              \* the driver call to be made next, or where the script waits
          back,            \* what halt_cpu or a word access was called for
          i, test,         \* loop counters: word or register, program
          ok,              \* no mismatch so far
          seen,            \* the value the last read returned
          dumped,          \* register values read
          unread,          \* answers on the line nobody has taken
          since,           \* clocks since the last call, up to CallGap
          code,            \* exit code, or NoCode
          faults

scriptVars == <<script, args, pc, back, i, test, ok, dumped, code>>
lineVars   == <<seen, unread, since, faults>>
vars == <<scriptVars, lineVars, targetVars>>

NoCode == -1

Args == [verify : BOOLEAN, dump : BOOLEAN, mem_check : BOOLEAN, halt : BOOLEAN, perf : BOOLEAN,
         file : {"good", "missing", "oversize", "unbuilt"}]

Program == Programs(script)[test]

(* What the word access under way is for, and the word it is about.          *)
Cell  == IF back \in {"check_w", "check_r"} THEN Patterns[i].cell ELSE i - 1
Value == IF back \in {"check_w", "check_r"} THEN Patterns[i].data ELSE Program[i]
Writing == back \in {"check_w", "load"}

Loaded(p) == \A k \in DOMAIN p : mem[k - 1] = p[k]
------------------------------------------------------------------------------
(* Driver calls.                                                             *)

Ctrl(r, h, ask) == [run |-> r, halt |-> h, ask |-> ask]
WriteReg(reg, v) == [kind |-> "write", reg |-> reg, value |-> v]
ReadReg(reg)     == [kind |-> "read", reg |-> reg, value |-> 0]

PollReads  == IF script = "led_blink" THEN 4 ELSE 3
FinalReads == 4

Request ==
    CASE pc \in {"version", "revision", "final", "perf"} -> ReadReg("INFO")
      [] pc = "halt"   -> WriteReg("CTRL", Ctrl(FALSE, TRUE, "none"))
      [] pc \in {"halting", "status", "idle", "break", "done"} -> ReadReg("CTRL")
      [] pc = "addr"   -> WriteReg("ADDR", Cell)
      [] pc = "data"   -> WriteReg("WDATA", Value)
      [] pc = "ask"    -> WriteReg("CTRL", Ctrl(FALSE, TRUE, IF Writing THEN "write" ELSE "read"))
      [] pc = "fetch"  -> ReadReg("RDATA")
      [] pc = "run"    -> WriteReg("CTRL", Ctrl(TRUE, FALSE, "none"))
      [] pc = "poll"   -> ReadReg(IF i = PollReads THEN "CTRL" ELSE "INFO")
      [] pc = "rf_addr" -> WriteReg("RF_ADDR", i - 1)
      [] pc = "rf_data" -> ReadReg("RF_DATA")

(* A call is a frame and its reply, more than 10^5 clocks at any baud rate in *)
(* use.  The properties need two; with one, a HALT written right behind the  *)
(* RUN that ended a break is no edge for the bridge.                         *)
Calling == pc \notin {"prepare", "open", "sleep", "closed"}
Sends   == Calling /\ since = CallGap /\ since' = 0

(* A read that is answered with another register's value takes it at face    *)
(* value; only the bits of CTRL and words are told apart here.               *)
Misread(reg) == CASE reg = "CTRL" -> [busy : BOOLEAN, halted : BOOLEAN, brk : BOOLEAN]
                  [] reg = "RDATA" -> {[word |-> mem[c]] : c \in Cells}
                  [] reg = "RF_DATA" -> {RegValue(0)}
                  [] OTHER -> {InfoValue}

Answer(req) == [req EXCEPT !.value = IF req.kind = "read" THEN ReadRegister(req.reg) ELSE InfoValue]
Answers     == Append(unread, Answer(Request))
First       == Head(Answers)

Carry == IF Request.kind = "write" THEN WriteRegister(Request.reg, Request.value)
                                   ELSE UNCHANGED targetVars

Fits == First.kind # "fragment" /\ (Request.kind = "read" => First.kind = "read")

(* The call returns: Returned says with what.                                *)
Returns == /\ Sends
           /\ Carry /\ Fits
           /\ unread' = Tail(Answers)
           /\ IF Request.kind = "write" THEN UNCHANGED seen
              ELSE IF First.reg = Request.reg THEN seen' = First.value
              ELSE seen' \in Misread(Request.reg)
           /\ UNCHANGED faults

Fault == faults < MaxFaults /\ faults' = faults + 1

Exit(c) == pc' = "closed" /\ code' = c

(* The call raises: on an answer to something else, or for the line's sake.  *)
(* Every script ends on that.                                                *)
Raises == /\ Sends
          /\ \/ ~Fits /\ Carry /\ UNCHANGED faults
             \/ Fault /\ (Carry \/ UNCHANGED targetVars)
          /\ Exit(1) /\ unread' = <<>>
          /\ UNCHANGED <<script, args, back, i, test, ok, seen, dumped>>

(* Ctrl-C, before a call is sent or inside it: then the device carries it    *)
(* out all the same, and its answer, or the rest of it, comes up later.      *)
(* Only the polling loop catches it: it stops the CPU.                       *)
Interrupted ==
    /\ Fault /\ (Calling \/ pc = "sleep")
    /\ \/ UNCHANGED <<targetVars, unread, since>>
       \/ /\ Sends /\ Carry
          /\ unread' \in {Answers, Append(unread, [Answer(Request) EXCEPT !.kind = "fragment"])}
    /\ IF pc \in {"sleep", "poll"} THEN pc' = "halt" /\ back' = "stop" /\ UNCHANGED code
                                   ELSE Exit(1) /\ UNCHANGED back
    /\ UNCHANGED <<script, args, i, test, ok, seen, dumped>>
------------------------------------------------------------------------------
(* The scripts, call by call: To moves to the next call, Enter starts a      *)
(* helper for a purpose, End leaves with an exit code.                       *)

To(next)         == /\ pc' = next /\ i' = 1
                    /\ UNCHANGED <<script, args, back, test, ok, dumped, code>>
Then(next)       == pc' = next /\ UNCHANGED <<script, args, back, i, test, ok, dumped, code>>
Again(next)      == /\ pc' = next /\ i' = i + 1
                    /\ UNCHANGED <<script, args, back, test, ok, dumped, code>>
Enter(next, why) == /\ pc' = next /\ back' = why /\ i' = 1
                    /\ UNCHANGED <<script, args, test, ok, dumped, code>>
End(c)           == Exit(c) /\ UNCHANGED <<script, args, back, i, test, ok, dumped>>

(* c_blink: a failed build, a missing file or one too big ends it at once.   *)
Prepare == /\ pc = "prepare"
           /\ IF args.file # "good" THEN End(1) ELSE To("open")
           /\ UNCHANGED <<lineVars, targetVars>>

Open == /\ pc = "open"
        /\ \/ To("version") /\ UNCHANGED faults
           \/ Fault /\ End(1)
        /\ UNCHANGED <<seen, unread, since, targetVars>>

Version  == pc = "version" /\ Returns /\ To("revision")
(* Mutant: the CPU is not halted first. *)
Revision_NoHalt == pc = "revision" /\ Returns /\ To("status")

Revision == /\ pc = "revision" /\ Returns
            /\ IF args.halt THEN Enter("halt", "boot") ELSE To("status")

(* computation_test: the next program, or the summary after the last.        *)
NextTest(passed) ==
    /\ ok' = (ok /\ passed)
    /\ IF test < Len(Programs(script))
       THEN pc' = "halt" /\ back' = "boot" /\ test' = test + 1 /\ UNCHANGED code
       ELSE Exit(IF ok' THEN 0 ELSE 1) /\ UNCHANGED <<back, test>>
    /\ UNCHANGED <<script, args, i, dumped>>

(* halt_cpu: request, then poll until HALTED or the deadline.  The polling   *)
(* loops do not look at what it returns when they stop the CPU.              *)
AfterHalt(in_time) ==
    CASE back = "stop"    -> To("final")
      [] back = "give_up" -> NextTest(FALSE)
      [] back = "boot"    -> IF script = "computation"
                             THEN IF in_time THEN Enter("addr", "load") ELSE NextTest(FALSE)
                             ELSE IF in_time THEN To("status") ELSE End(1)

HaltWrite    == pc = "halt" /\ Returns /\ To("halting")
HaltPoll     == /\ pc = "halting" /\ Returns
                /\ IF seen'.halted THEN AfterHalt(TRUE) ELSE UNCHANGED scriptVars
HaltDeadline == pc = "halting" /\ AfterHalt(FALSE) /\ UNCHANGED <<lineVars, targetVars>>

Status == /\ pc = "status" /\ Returns
          /\ CASE script = "regfile_dump" -> IF args.perf THEN To("perf") ELSE To("rf_addr")
               [] OTHER -> IF args.mem_check THEN Enter("addr", "check_w") ELSE Enter("addr", "load")

(* write_word and read_word: address, data, request, then wait for the       *)
(* engine; what follows depends on who called.                               *)
(* Mutant: the last word is not written. *)
NextWord_OneShort(same) ==
    IF back = "load" /\ i < Len(Program) - 1 THEN Again("addr") ELSE To("run")

NextWord(same) ==
    CASE back = "check_w" -> /\ pc' = "addr" /\ back' = "check_r"
                             /\ UNCHANGED <<script, args, i, test, ok, dumped, code>>
      [] back = "check_r" /\ i < Len(Patterns) ->
            /\ pc' = "addr" /\ back' = "check_w" /\ i' = i + 1 /\ ok' = (ok /\ same)
            /\ UNCHANGED <<script, args, test, dumped, code>>
      [] back = "check_r" /\ i = Len(Patterns) -> IF ok /\ same THEN Enter("addr", "load") ELSE End(1)
      [] back = "load" -> IF i < Len(Program) THEN Again("addr")
                          ELSE IF args.verify THEN Enter("addr", "verify")
                          ELSE IF args.dump THEN Enter("addr", "show") ELSE To("run")
      [] back = "show" -> IF i < Len(Program) THEN Again("addr") ELSE To("run")
      [] back = "verify" /\ i < Len(Program) ->
            /\ pc' = "addr" /\ i' = i + 1 /\ ok' = (ok /\ same)
            /\ UNCHANGED <<script, args, back, test, dumped, code>>
      [] back = "verify" /\ i = Len(Program) -> IF ok /\ same THEN To("run") ELSE End(1)

PutAddr  == pc = "addr" /\ Returns /\ Then(IF Writing THEN "data" ELSE "ask")
PutData  == pc = "data" /\ Returns /\ Then("ask")
Ask      == pc = "ask" /\ Returns /\ Then("idle")
WaitIdle == /\ pc = "idle" /\ Returns
            /\ IF seen'.busy THEN UNCHANGED scriptVars
               ELSE IF Writing THEN NextWord(TRUE) ELSE Then("fetch")
IdleDeadline == pc = "idle" /\ End(1) /\ UNCHANGED <<lineVars, targetVars>>
Fetch    == pc = "fetch" /\ Returns /\ NextWord(seen'.word = Value)

Run == pc = "run" /\ Returns /\ To(IF script = "computation" THEN "break" ELSE "sleep")

Sleep == pc = "sleep" /\ To("poll") /\ UNCHANGED <<lineVars, targetVars>>
Poll  == pc = "poll" /\ Returns /\ IF i < PollReads THEN Again("poll") ELSE To("sleep")

(* wait_for_ebreak, then the status and the result register.                 *)
WaitBreak     == /\ pc = "break" /\ Returns
                 /\ IF seen'.halted /\ seen'.brk THEN To("done") ELSE UNCHANGED scriptVars
(* Mutant: the deadline is only looked at once the CPU has halted. *)
BreakDeadline_OnceHalted == /\ pc = "break" /\ cpu_halted
                            /\ Enter("halt", "give_up") /\ UNCHANGED <<lineVars, targetVars>>

BreakDeadline == pc = "break" /\ Enter("halt", "give_up") /\ UNCHANGED <<lineVars, targetVars>>
Done          == pc = "done" /\ Returns /\ To("rf_addr")

RanTo(p, value) == value.left.how = "break" /\ \A k \in DOMAIN p : value.left.image[k - 1] = p[k]

(* read_register, once for a result or for every register in turn.           *)
PutReg == pc = "rf_addr" /\ Returns /\ Then("rf_data")
(* Mutant: one register too many. *)
GetReg_OneMore == /\ pc = "rf_data" /\ Returns
                  /\ dumped' = Append(dumped, seen')
                  /\ IF i <= NumRegs THEN pc' = "rf_addr" /\ i' = i + 1 /\ UNCHANGED code
                                     ELSE Exit(0) /\ UNCHANGED i
                  /\ UNCHANGED <<script, args, back, test, ok>>

GetReg == /\ pc = "rf_data" /\ Returns
          /\ IF script = "computation" THEN NextTest(RanTo(Program, seen'))
             ELSE /\ dumped' = Append(dumped, seen')
                  /\ IF i < NumRegs THEN pc' = "rf_addr" /\ i' = i + 1 /\ UNCHANGED code
                                    ELSE Exit(0) /\ UNCHANGED i
                  /\ UNCHANGED <<script, args, back, test, ok>>

(* read_perf_counters, and the final statistics after Ctrl-C.                *)
Perf  == pc = "perf" /\ Returns /\ IF i < FinalReads THEN Again("perf") ELSE To("rf_addr")
Final == pc = "final" /\ Returns /\ IF i < FinalReads THEN Again("final") ELSE End(0)

Tick(breaks) == /\ Clock(breaks)
                /\ since' = (IF since < CallGap THEN since + 1 ELSE CallGap)
                /\ UNCHANGED <<scriptVars, seen, unread, faults>>
------------------------------------------------------------------------------
(* Options a script does not have are off; computation_test and the blinkers *)
(* always halt the CPU first.                                                *)
Options(s) ==
    {a \in Args : /\ a.file # "good" => s = "c_blink"
                  /\ a.verify => s \in {"led_blink", "c_blink"}
                  /\ a.dump => s = "computation"
                  /\ a.mem_check => s = "led_blink"
                  /\ ~a.halt \/ a.perf => s = "regfile_dump"}

Init == /\ script \in Scripts /\ args \in Options(script)
        /\ pc = (IF script = "c_blink" THEN "prepare" ELSE "open")
        /\ back = "boot" /\ i = 1 /\ test = 1 /\ ok = TRUE /\ seen = InfoValue /\ dumped = <<>>
        /\ unread \in Leftovers /\ since = CallGap /\ code = NoCode /\ faults = 0
        /\ \E running \in BOOLEAN : Found(OldMemory, running)

Deadline == HaltDeadline \/ IdleDeadline \/ BreakDeadline
Driven   == \/ Version \/ Revision \/ HaltWrite \/ HaltPoll \/ Status
            \/ PutAddr \/ PutData \/ Ask \/ WaitIdle \/ Fetch \/ Run
            \/ Poll \/ WaitBreak \/ Done \/ PutReg \/ GetReg \/ Perf \/ Final
Local    == Prepare \/ Open \/ Sleep

Next == Driven \/ Local \/ Deadline \/ Raises \/ Interrupted
        \/ Tick(FALSE) \/ Tick(TRUE)

Spec == Init /\ [][Next]_vars

(* The clock runs, calls come back, one way or the other, and the deadlines  *)
(* of the waiting loops pass.  EBREAK and Ctrl-C need never come.            *)
FairSpec == /\ Spec /\ WF_vars(Tick(FALSE)) /\ WF_vars(Driven \/ Local \/ Raises)
            /\ WF_vars(Deadline)
------------------------------------------------------------------------------
(* Where the script is, what it holds and what is left on the line.          *)
SessionTypeOK ==
    /\ (code = NoCode) = (pc # "closed") /\ code \in {NoCode, 0, 1}
    /\ Len(dumped) <= NumRegs /\ faults \in 0..MaxFaults
    /\ pc \in {"addr", "data", "ask", "idle", "fetch"} => Cell \in Cells
    /\ mem \in [Cells -> Int]

(* The CPU is only let go with every word of the program in place, whatever  *)
(* an earlier session left in memory, in the CPU or on the line.             *)
RunsWholeProgram == [][~run /\ run' => Loaded(Program)]_vars

(* cpu.py's precondition, "CPU が halt 状態であること", and what keeps a second *)
(* request from overwriting the first: every access finds the CPU halted and *)
(* the engine free.                                                          *)
RequestsFindEngineFree ==
    [][strobe' \notin {strobe, "none"} => cpu_halted /\ ~busy]_vars

(* BUSY falls before the word is in RDATA; the next call is slow enough.     *)
WordsReadAreInMemory ==
    [][pc = "fetch" /\ pc' \notin {"fetch", "closed"} => seen'.word = mem[Cell]]_vars

(* wait_for_ebreak: the break it reports is that of the program just         *)
(* started, not the one the program before it stopped at.                    *)
BreakIsOwn == [][pc = "break" /\ pc' = "done" => RanTo(Program, RegValue(0))]_vars

(* A dump that ends well after a halt shows one state of the register file.  *)
DumpIsRegisterFile ==
    code = 0 /\ script = "regfile_dump" /\ args.halt =>
        dumped = [k \in 1..NumRegs |-> RegValue(k - 1)]

(* halt_cpu's request takes effect whether or not the script waits for it,   *)
(* and a blink that ends with 0 has made one.                                *)
StopTakesEffect ==
    pc = "halting" \/ (code = 0 /\ script \in {"led_blink", "c_blink"}) ~> ~Executing

(* No script hangs: it ends, or reaches the loop only Ctrl-C ends.           *)
SessionEnds == (code = NoCode) ~> (code # NoCode \/ pc = "sleep")
=============================================================================
