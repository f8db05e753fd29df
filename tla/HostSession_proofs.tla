------------------------- MODULE HostSession_proofs -------------------------
(***************************************************************************)
(* What the scripts of HostSession do to the processor, for programs of    *)
(* any length, any memory and any number of registers.                     *)
(***************************************************************************)
EXTENDS HostSession, SequenceTheorems, TLAPS

(* The calls of a word access.                                               *)
WordCall == {"addr", "data", "ask", "idle", "fetch"}
Blinkers == {"led_blink", "c_blink"}

(* Which script is where, and which helper was entered for what.             *)
Place ==
    /\ script \in Scripts /\ args \in Options(script)
    /\ pc \in {"prepare", "open", "version", "revision", "halt", "halting", "status",
               "addr", "data", "ask", "idle", "fetch", "run", "sleep", "poll", "break",
               "done", "rf_addr", "rf_data", "perf", "final", "closed"}
    /\ pc \in WordCall \cup {"run"} => script # "regfile_dump"
    /\ pc \in {"sleep", "poll", "final"} => script \in Blinkers
    /\ pc \in {"break", "done"} => script = "computation"
    /\ pc = "perf" => script = "regfile_dump"
    /\ pc \in {"halt", "halting"} =>
         \/ back = "boot"
         \/ back = "stop" /\ script \in Blinkers
         \/ back = "give_up" /\ script = "computation"
    /\ pc \in WordCall => back \in {"check_w", "check_r", "load", "verify", "show"}
    /\ code \in {NoCode, 0, 1} /\ (code = NoCode) = (pc # "closed")

(* The loop counters stay inside the lists they run through.                 *)
Counters ==
    /\ since \in 0..CallGap /\ faults \in 0..MaxFaults
    /\ test \in 1..Len(Programs(script)) /\ i \in Nat \ {0}
    /\ pc \in WordCall =>
         i <= IF back \in {"check_w", "check_r"} THEN Len(Patterns) ELSE Len(Program)
    /\ pc \in {"rf_addr", "rf_data"} => i <= NumRegs

(* Memory holds words.                                                       *)
Words == mem \in [Cells -> Int] /\ mem_wdata \in Int /\ latched.data \in Int

(* The CPU has been seen halted, and nothing has let it go since.            *)
HaltSeen ==
    \/ pc \in WordCall \cup {"run"}
    \/ args.halt /\ pc = "status"
    \/ /\ args.halt /\ script = "regfile_dump"
       /\ pc \in {"perf", "rf_addr", "rf_data"} \/ code = 0

Held == ~run /\ ~prev_run /\ cpu_halted

Halting ==
    /\ HaltSeen => Held
    /\ pc = "halting" => (~run /\ (since = 0 \/ ~prev_run))

(* At most one answer waits on the line, and none once a read of CTRL came   *)
(* back from a halt: a stray answer is then that to a write, and refused.    *)
Line ==
    /\ pc # "closed" => unread = <<>> \/ unread = <<Head(unread)>>
    /\ pc = "halting" => unread = <<>> \/ Head(unread).kind # "read"
    /\ pc \in {"sleep", "poll", "break"} \/ (HaltSeen /\ pc # "closed") => unread = <<>>

(* The memory engine is at work on one access, or free.                      *)
Stored(word_in) == IF Writing THEN mem[Cell] = Value ELSE word_in = mem[Cell]

Asked     == /\ busy /\ strobe = (IF Writing THEN "write" ELSE "read") /\ dbg_state = "IDLE"
             /\ latched.addr = Cell /\ (Writing => latched.data = Value)
Accessing == /\ busy /\ busy_q /\ strobe = "none" /\ dbg_state = "ACCESS"
             /\ Stored(ram_q) /\ (~Writing => dbg_read)
Answering == /\ ~busy /\ strobe = "none" /\ dbg_state = "RESPOND"
             /\ Stored(rdata_buf) /\ (~Writing => dbg_read)
Answered  == ~busy /\ strobe = "none" /\ dbg_state = "IDLE" /\ Stored(rdata)

Engine ==
    /\ pc \notin {"idle", "closed"} =>
         ~busy /\ strobe = "none" /\ (dbg_state = "IDLE" \/ (dbg_state = "RESPOND" /\ since = 0))
    /\ pc = "idle" => Asked \/ Accessing \/ Answering \/ Answered
    /\ pc = "fetch" => ~Writing /\ (Answering \/ Answered)
    /\ pc \in {"data", "ask"} => mem_addr = Cell
    /\ pc = "ask" /\ Writing => mem_wdata = Value

(* What is in memory of the program.                                         *)
Program_In ==
    /\ pc \in WordCall /\ back = "load" => \A k \in 1..(i - 1) : mem[k - 1] = Program[k]
    /\ pc \in WordCall /\ back \in {"verify", "show"} => Loaded(Program)
    /\ pc \in {"run", "break"} => Loaded(Program)

(* A break waited for is that of the program let go last.                    *)
OwnBreak ==
    pc = "break" => /\ run
                    /\ \/ ~prev_run /\ since = 0
                       \/ prev_run /\ (ebreak => owner = Left("break", mem))

(* The registers read so far.                                                *)
Dumped ==
    /\ script = "computation" \/ pc \notin {"rf_addr", "rf_data", "closed"} => dumped = <<>>
    /\ Len(dumped) <= NumRegs
    /\ script # "computation" /\ pc \in {"rf_addr", "rf_data"} =>
         dumped = [k \in 1..(i - 1) |-> dumped[k]]
    /\ script = "regfile_dump" /\ args.halt =>
         /\ pc \in {"rf_addr", "rf_data"} => dumped = [k \in 1..(i - 1) |-> RegValue(k - 1)]
         /\ pc = "rf_data" => rf_addr = i - 1 /\ (since = 0 \/ rf_data = RegValue(i - 1))
         /\ code = 0 => dumped = [k \in 1..NumRegs |-> RegValue(k - 1)]

Sound == /\ Place /\ Counters /\ Words /\ Halting /\ Line
         /\ Engine /\ Program_In /\ OwnBreak /\ Dumped
------------------------------------------------------------------------------
(* What a call asks for, and what it finds when nothing else is on the line. *)

LEMMA Requests ==
    /\ pc \in {"version", "revision", "final", "perf"} => Request = ReadReg("INFO")
    /\ pc \in {"halting", "status", "idle", "break", "done"} => Request = ReadReg("CTRL")
    /\ pc = "fetch" => Request = ReadReg("RDATA")
    /\ pc = "rf_data" => Request = ReadReg("RF_DATA")
    /\ pc = "poll" => Request = ReadReg(IF i = PollReads THEN "CTRL" ELSE "INFO")
    /\ pc = "halt" => Request = WriteReg("CTRL", Ctrl(FALSE, TRUE, "none"))
    /\ pc = "run" => Request = WriteReg("CTRL", Ctrl(TRUE, FALSE, "none"))
    /\ pc = "addr" => Request = WriteReg("ADDR", Cell)
    /\ pc = "data" => Request = WriteReg("WDATA", Value)
    /\ pc = "rf_addr" => Request = WriteReg("RF_ADDR", i - 1)
    /\ pc = "ask" =>
         Request = WriteReg("CTRL", Ctrl(FALSE, TRUE, IF Writing THEN "write" ELSE "read"))
  BY DEF Request

(* A read changes nothing.                                                   *)
LEMMA ReadsOnly ==
    ASSUME pc \in {"version", "revision", "final", "perf", "halting", "status", "idle", "break",
                   "done", "fetch", "rf_data", "poll"},
           Carry
    PROVE  Request.kind = "read" /\ UNCHANGED targetVars
  <1>1. Request.kind = "read"
    BY Requests DEF ReadReg
  <1> QED
    BY <1>1 DEF Carry

LEMMA Writes ==
    ASSUME Carry
    PROVE  /\ pc = "halt" => WriteRegister("CTRL", Ctrl(FALSE, TRUE, "none"))
           /\ pc = "run" => WriteRegister("CTRL", Ctrl(TRUE, FALSE, "none"))
           /\ pc = "addr" => WriteRegister("ADDR", Cell)
           /\ pc = "data" => WriteRegister("WDATA", Value)
           /\ pc = "rf_addr" => WriteRegister("RF_ADDR", i - 1)
           /\ pc = "ask" => WriteRegister("CTRL",
                              Ctrl(FALSE, TRUE, IF Writing THEN "write" ELSE "read"))
  <1> DEFINE R == Request
  <1>1. R.kind = "write" => WriteRegister(R.reg, R.value)
    BY DEF Carry
  <1>2. ASSUME NEW reg, NEW v, R = WriteReg(reg, v)
        PROVE  WriteRegister(reg, v)
    <2>1. R.kind = "write" /\ R.reg = reg /\ R.value = v
      BY <1>2 DEF WriteReg
    <2> QED
      BY <1>1, <2>1
  <1> HIDE DEF R
  <1>3. R = Request
    BY DEF R
  <1> QED
    BY <1>2, <1>3, Requests

(* The four registers written, one by one.                                   *)
RestOfTarget == <<busy_q, crossbarVars, cpuVars>>

LEMMA CtrlWritten ==
    ASSUME NEW v, WriteRegister("CTRL", v)
    PROVE  WriteCtrl(v)
  BY DEF WriteRegister

LEMMA OthersWritten ==
    ASSUME NEW v
    PROVE  /\ WriteRegister("ADDR", v) =>
                /\ mem_addr' = v
                /\ UNCHANGED <<mem_wdata, run, halt, strobe, busy, was_read, latched, rf_addr,
                               RestOfTarget>>
           /\ WriteRegister("WDATA", v) =>
                /\ mem_wdata' = v
                /\ UNCHANGED <<mem_addr, run, halt, strobe, busy, was_read, latched, rf_addr,
                               RestOfTarget>>
           /\ WriteRegister("RF_ADDR", v) =>
                /\ rf_addr' = v
                /\ UNCHANGED <<mem_addr, mem_wdata, run, halt, strobe, busy, was_read, latched,
                               RestOfTarget>>
  BY DEF WriteRegister, RestOfTarget

(* The line after a call that returned.                                      *)
LEMMA ShortLines ==
    ASSUME NEW a, NEW b
    PROVE  /\ Append(<<>>, a) = <<a>> /\ Tail(<<a>>) = <<>> /\ Head(<<a>>) = a
           /\ Head(Append(<<a>>, b)) = a /\ Tail(Append(<<a>>, b)) = <<b>>
  <1>1. Append(<<>>, a) = <<a>> /\ Append(<<>>, b) = <<b>>
    OBVIOUS
  <1>2. Tail(<<a>>) = <<>> /\ Head(<<a>>) = a /\ <<a>> # <<>>
    OBVIOUS
  <1>3. <<a>> \in Seq({a})
    OBVIOUS
  <1>4. /\ Head(Append(<<a>>, b)) = Head(<<a>>)
        /\ Tail(Append(<<a>>, b)) = Append(Tail(<<a>>), b)
    BY <1>2, <1>3, HeadTailAppend
  <1> QED
    BY <1>1, <1>2, <1>4

LEMMA OneLeft ==
    ASSUME Returns, unread = <<>> \/ unread = <<Head(unread)>>
    PROVE  unread' = <<>> \/ (unread' = <<Head(unread')>> /\ Head(unread') = Answer(Request))
  <1> DEFINE mine == Answer(Request)
             other == Head(unread)
  <1> HIDE DEF mine, other
  <1>1. Answers = Append(unread, mine) /\ unread' = Tail(Answers)
    BY DEF Answers, Returns, mine
  <1>2. CASE unread = <<>>
    <2>1. Answers = <<mine>>
      BY <1>1, <1>2, ShortLines
    <2> QED
      BY <1>1, <2>1, ShortLines
  <1>3. CASE unread = <<other>>
    <2>2. unread' = <<mine>>
      BY <1>1, <1>3, ShortLines
    <2> QED
      BY <2>2, ShortLines DEF mine
  <1> QED
    BY <1>2, <1>3 DEF other

LEMMA AnswerIs ==
    ASSUME NEW reg, Request = ReadReg(reg)
    PROVE  /\ Answer(Request).kind = "read" /\ Answer(Request).reg = reg
           /\ Answer(Request).value = ReadRegister(reg)
           /\ Request.kind = "read" /\ Request.reg = reg
  <1> DEFINE value == ReadRegister(reg)
  <1> HIDE DEF value
  <1>1. Request = [kind |-> "read", reg |-> reg, value |-> 0]
    BY DEF ReadReg
  <1>2. Request.kind = "read" /\ Request.reg = reg
    BY <1>1
  <1>3. Answer(Request) = [Request EXCEPT !.value = value]
    BY <1>2 DEF Answer, value
  <1>4. Answer(Request) = [kind |-> "read", reg |-> reg, value |-> value]
    BY <1>1, <1>3
  <1> QED
    BY <1>2, <1>4 DEF value

LEMMA AnswerToWrite ==
    ASSUME NEW reg, NEW v, Request = WriteReg(reg, v)
    PROVE  Answer(Request).kind = "write" /\ Request.kind = "write"
  <1>1. Request = [kind |-> "write", reg |-> reg, value |-> v]
    BY DEF WriteReg
  <1>2. Request.kind = "write"
    BY <1>1
  <1>3. Answer(Request) = [Request EXCEPT !.value = InfoValue]
    BY <1>2 DEF Answer
  <1>4. Answer(Request) = [kind |-> "write", reg |-> reg, value |-> InfoValue]
    BY <1>1, <1>3
  <1> QED
    BY <1>2, <1>4

LEMMA OwnAnswer ==
    ASSUME Returns, unread = <<>>
    PROVE  /\ unread' = <<>>
           /\ \A reg : Request = ReadReg(reg) => seen' = ReadRegister(reg)
  <1> DEFINE mine == Answer(Request)
  <1>1. Answers = <<mine>>
    <2> HIDE DEF mine
    <2>1. Answers = Append(<<>>, mine)
      BY DEF Answers, mine
    <2> QED
      BY <2>1, ShortLines
  <1>2. unread' = <<>>
    <2> HIDE DEF mine
    <2> QED
      BY <1>1, ShortLines DEF Returns
  <1>3. First = Answer(Request)
    <2>1. First = mine
      <3> HIDE DEF mine
      <3> QED
        BY <1>1, ShortLines DEF First
    <2> QED
      BY <2>1
  <1>4. ASSUME NEW reg, Request = ReadReg(reg)
        PROVE  seen' = ReadRegister(reg)
    <2>1. Request.kind = "read" /\ First.reg = Request.reg /\ First.value = ReadRegister(reg)
      BY <1>3, <1>4, AnswerIs
    <2>2. IF Request.kind = "write" THEN UNCHANGED seen
          ELSE IF First.reg = Request.reg THEN seen' = First.value
          ELSE seen' \in Misread(Request.reg)
      BY DEF Returns
    <2>3. Request.kind # "write"
      BY <2>1
    <2> QED
      BY <2>1, <2>2, <2>3
  <1> QED
    BY <1>2, <1>4

LEMMA NobodyElses ==
    ASSUME Returns, pc = "halting", unread = <<>> \/ unread = <<Head(unread)>>,
           unread = <<>> \/ Head(unread).kind # "read"
    PROVE  unread = <<>>
  <1>1. Request.kind = "read"
    BY Requests DEF ReadReg
  <1>2. First.kind = "read"
    BY <1>1 DEF Returns, Fits
  <1> DEFINE mine == Answer(Request)
             other == Head(unread)
  <1> HIDE DEF mine, other
  <1> SUFFICES ASSUME unread = <<other>>, other.kind # "read"
               PROVE  FALSE
    BY DEF other
  <1>3. Answers = Append(<<other>>, mine)
    BY DEF Answers, mine
  <1>5. First = other
    BY <1>3, ShortLines DEF First
  <1> QED
    BY <1>2, <1>5

(* What every call that returns does.                                        *)
LEMMA ReturnsFacts ==
    ASSUME Returns
    PROVE  Carry /\ since = CallGap /\ since' = 0 /\ faults' = faults
  BY DEF Returns, Sends
------------------------------------------------------------------------------
(* Arithmetic and data of a session.                                         *)

LEMMA ProgramWords ==
    ASSUME script \in Scripts, test \in 1..Len(Programs(script))
    PROVE  /\ Program \in Seq(Int) /\ Len(Program) \in Nat \ {0}
           /\ \A k \in 1..Len(Program) : Program[k] \in Int /\ k - 1 \in Cells
           /\ DOMAIN Program = 1..Len(Program)
  <1> DEFINE all == Programs(script)
  <1>1. /\ all \in Seq(Seq(Int))
        /\ \A n \in DOMAIN all :
             Len(all[n]) > 0 /\ \A k \in DOMAIN all[n] : k - 1 \in Cells
    BY SessionAssumption
  <1> HIDE DEF all
  <1>2. Program = all[test] /\ test \in 1..Len(all)
    BY DEF Program, all
  <1> DEFINE p == Program
  <1>3. p \in Seq(Int) /\ Len(p) > 0 /\ \A k \in DOMAIN p : k - 1 \in Cells
    BY <1>1, <1>2
  <1> HIDE DEF p
  <1>4. Len(p) \in Nat \ {0} /\ DOMAIN p = 1..Len(p)
    BY <1>3
  <1>5. \A k \in 1..Len(p) : p[k] \in Int
    BY <1>3
  <1> QED
    BY <1>3, <1>4, <1>5 DEF p

LEMMA CellHolds ==
    ASSUME Place, Counters, pc \in WordCall
    PROVE  Cell \in Cells /\ Value \in Int
  <1>1. CASE back \in {"check_w", "check_r"}
    <2>1. i \in 1..Len(Patterns)
      BY <1>1, SessionAssumption DEF Counters
    <2>2. Patterns[i] \in [cell : Cells, data : Int]
      <3>1. Patterns \in Seq([cell : Cells, data : Int])
        BY SessionAssumption, Zenon
      <3> QED
        BY <2>1, <3>1, ElementOfSeq, Zenon
    <2> QED
      BY <1>1, <2>2 DEF Cell, Value
  <1>2. CASE back \notin {"check_w", "check_r"}
    <2>1. i \in 1..Len(Program) /\ script \in Scripts /\ test \in 1..Len(Programs(script))
      <3>1. Len(Program) \in Nat
        BY ProgramWords DEF Place, Counters
      <3> QED
        BY <1>2, <3>1 DEF Counters, Place
    <2> QED
      BY <1>2, <2>1, ProgramWords DEF Cell, Value
  <1> QED
    BY <1>1, <1>2

LEMMA CallGapIs == CallGap \in Nat \ {0} /\ MaxFaults \in Nat /\ NumRegs \in Nat \ {0}
  BY SessionAssumption

------------------------------------------------------------------------------
(* One clock.                                                                *)

LEMMA SinceTicks ==
    ASSUME NEW b \in BOOLEAN, Tick(b), since \in 0..CallGap
    PROVE  since' \in 1..CallGap
  BY CallGapIs DEF Tick

(* With the levels low and the CPU halted, nothing wakes it and no result    *)
(* changes.                                                                  *)
LEMMA HeldStays ==
    ASSUME NEW b \in BOOLEAN, Clock(b), Held
    PROVE  Held' /\ owner' = owner
  <1>1. ~run' /\ ~prev_run' /\ ~run_edge
    BY DEF Clock, MemoryEngine, DebugBridge, Held, run_edge
  <1>2. ~b /\ owner' = owner
    <2>1. ~Executing
      BY DEF Executing, Held
    <2> QED
      BY <2>1 DEF Clock, Core
  <1>3. ebreak => ebreak'
    BY <1>1 DEF Clock, Wrapper
  <1>4. halted => halted'
    BY <1>1 DEF Clock, DebugBridge
  <1> QED
    BY <1>1, <1>2, <1>3, <1>4 DEF Held, cpu_halted

(* An engine that is free stays free, and memory as it is.                   *)
LEMMA FreeStays ==
    ASSUME NEW b \in BOOLEAN, Clock(b), ~busy, strobe = "none", dbg_state \in {"IDLE", "RESPOND"}
    PROVE  /\ ~busy' /\ strobe' = "none" /\ dbg_state' = "IDLE"
           /\ mem' = mem /\ mem_addr' = mem_addr /\ mem_wdata' = mem_wdata
  <1>1. ~busy' /\ strobe' = "none" /\ mem_addr' = mem_addr /\ mem_wdata' = mem_wdata
    BY DEF Clock, MemoryEngine
  <1>2. ~Access
    BY DEF Access
  <1>3. mem' = mem /\ dbg_state' = "IDLE"
    BY <1>2 DEF Clock, DebugPort
  <1> QED
    BY <1>1, <1>3

LEMMA SameScript ==
    ASSUME UNCHANGED scriptVars
    PROVE  /\ Program' = Program /\ Cell' = Cell /\ Value' = Value /\ Writing' = Writing
           /\ HaltSeen' = HaltSeen
  BY DEF scriptVars, Program, Cell, Value, Writing, HaltSeen
(* The four phases of an access.                                             *)
LEMMA AskedServed ==
    ASSUME NEW b \in BOOLEAN, Tick(b), Asked, Held, Words, Cell \in Cells
    PROVE  /\ Accessing'
           /\ ~Writing => mem' = mem
           /\ \A c \in Cells : c # Cell => mem'[c] = mem[c]
  <1>1. Clock(b) /\ UNCHANGED scriptVars
    BY DEF Tick
  <1>2. Cell' = Cell /\ Value' = Value /\ Writing' = Writing
    BY <1>1, SameScript
  <1>3. strobe # "none" /\ (strobe = "write" <=> Writing) /\ (strobe = "read" <=> ~Writing)
    BY DEF Asked
  <1>4. busy' /\ busy_q' /\ strobe' = "none"
    BY <1>1, <1>3 DEF Clock, MemoryEngine, Asked
  <1>5. Access /\ AtCell = Cell /\ (Writing => Datum = Value)
    BY <1>3 DEF Access, AtCell, Datum, Asked, Held
  <1>6. dbg_state' = "ACCESS" /\ (~Writing => dbg_read')
    BY <1>1, <1>3, <1>5 DEF Clock, DebugPort, Asked
  <1>7. CASE Writing
    <2>1. mem' = [mem EXCEPT ![Cell] = Value]
      BY <1>1, <1>3, <1>5, <1>7 DEF Clock, DebugPort
    <2>2. mem'[Cell] = Value /\ \A c \in Cells : c # Cell => mem'[c] = mem[c]
      BY <2>1 DEF Words
    <2>3. Stored(ram_q)'
      BY <1>2, <1>7, <2>2 DEF Stored
    <2> QED
      BY <1>2, <1>4, <1>6, <1>7, <2>2, <2>3 DEF Accessing
  <1>8. CASE ~Writing
    <2>1. mem' = mem /\ ram_q' = mem[Cell]
      BY <1>1, <1>3, <1>5, <1>8 DEF Clock, DebugPort
    <2>2. Stored(ram_q)'
      BY <1>2, <1>8, <2>1 DEF Stored
    <2> QED
      BY <1>2, <1>4, <1>6, <1>8, <2>1, <2>2 DEF Accessing
  <1> QED
    BY <1>7, <1>8

LEMMA PhasesFollow ==
    ASSUME NEW b \in BOOLEAN, Tick(b)
    PROVE  /\ Accessing => Answering' /\ mem' = mem
           /\ Answering => Answered' /\ mem' = mem
           /\ Answered => Answered' /\ mem' = mem
  <1>1. Clock(b) /\ UNCHANGED scriptVars
    BY DEF Tick
  <1>2. Cell' = Cell /\ Value' = Value /\ Writing' = Writing
    BY <1>1, SameScript
  <1>3. strobe = "none" => mem' = mem
    BY <1>1 DEF Clock, DebugPort, Access
  <1>4. ASSUME Accessing
        PROVE  Answering' /\ mem' = mem
    <2>1. ~busy' /\ strobe' = "none"
      BY <1>1, <1>4 DEF Clock, MemoryEngine, Accessing
    <2>2. dbg_state' = "RESPOND" /\ (~Writing => rdata_buf' = ram_q /\ dbg_read')
      BY <1>1, <1>4 DEF Clock, DebugPort, Accessing
    <2>3. Stored(rdata_buf)'
      BY <1>2, <1>3, <1>4, <2>2 DEF Stored, Accessing
    <2> QED
      BY <1>2, <1>3, <1>4, <2>1, <2>2, <2>3 DEF Answering, Accessing
  <1>5. ASSUME Answering
        PROVE  Answered' /\ mem' = mem
    <2>1. ~busy' /\ strobe' = "none" /\ dbg_state' = "IDLE"
      BY <1>1, <1>5, FreeStays DEF Answering
    <2>2. ~Writing => rdata' = rdata_buf
      BY <1>1, <1>5 DEF Clock, DebugPort, Answering
    <2>3. Stored(rdata)'
      BY <1>2, <1>3, <1>5, <2>2 DEF Stored, Answering
    <2> QED
      BY <1>3, <1>5, <2>1, <2>3 DEF Answered, Answering
  <1>6. ASSUME Answered
        PROVE  Answered' /\ mem' = mem
    <2>1. ~busy' /\ strobe' = "none" /\ dbg_state' = "IDLE"
      BY <1>1, <1>6, FreeStays DEF Answered
    <2>2. rdata' = rdata
      BY <1>1, <1>6 DEF Clock, DebugPort, Answered
    <2>3. Stored(rdata)'
      BY <1>2, <1>3, <1>6, <2>2 DEF Stored, Answered
    <2> QED
      BY <1>3, <1>6, <2>1, <2>3 DEF Answered
  <1> QED
    BY <1>4, <1>5, <1>6

LEMMA TickWords ==
    ASSUME NEW b \in BOOLEAN, Tick(b), Words
    PROVE  Words'
  <1>1. mem_wdata' = mem_wdata /\ latched' = latched
    BY DEF Tick, Clock, MemoryEngine
  <1>2. mem' = [mem EXCEPT ![AtCell] = Datum] \/ mem' = mem
    BY DEF Tick, Clock, DebugPort
  <1>3. Datum \in Int
    BY DEF Datum, Words
  <1> QED
    BY <1>1, <1>2, <1>3 DEF Words

LEMMA TickHalting ==
    ASSUME NEW b \in BOOLEAN, Tick(b), Halting, since \in 0..CallGap
    PROVE  Halting'
  <1>1. HaltSeen' = HaltSeen /\ pc' = pc /\ Clock(b)
    BY SameScript DEF Tick, scriptVars
  <1>2. HaltSeen => Held'
    BY <1>1, HeldStays DEF Halting
  <1>3. pc = "halting" => ~run' /\ ~prev_run'
    BY <1>1 DEF Halting, Clock, MemoryEngine, DebugBridge
  <1> QED
    BY <1>1, <1>2, <1>3 DEF Halting

LEMMA TickEngine ==
    ASSUME NEW b \in BOOLEAN, Tick(b), Place, Counters, Words, Halting, Engine
    PROVE  /\ Engine'
           /\ pc \notin {"idle", "closed"} \/ (pc # "closed" /\ ~Writing) => mem' = mem
           /\ pc = "idle" => \A c \in Cells : c # Cell => mem'[c] = mem[c]
  <1>1. /\ Clock(b) /\ pc' = pc /\ Cell' = Cell /\ Value' = Value /\ Writing' = Writing
    BY SameScript DEF Tick, scriptVars
  <1>2. CASE pc = "closed"
    BY <1>1, <1>2 DEF Engine
  <1>3. CASE pc = "idle"
    <2>1. Held /\ Cell \in Cells
      BY <1>3, CellHolds DEF Halting, HaltSeen, WordCall
    <2>2. Asked \/ Accessing \/ Answering \/ Answered
      BY <1>3 DEF Engine
    <2>3. /\ Accessing' \/ Answering' \/ Answered'
          /\ ~Writing => mem' = mem
          /\ \A c \in Cells : c # Cell => mem'[c] = mem[c]
      BY <2>1, <2>2, AskedServed, PhasesFollow
    <2> QED
      BY <1>1, <1>3, <2>3 DEF Engine
  <1>4. CASE pc \notin {"idle", "closed"}
    <2>1. ~busy /\ strobe = "none" /\ dbg_state \in {"IDLE", "RESPOND"}
      BY <1>4 DEF Engine
    <2>2. /\ ~busy' /\ strobe' = "none" /\ dbg_state' = "IDLE"
          /\ mem' = mem /\ mem_addr' = mem_addr /\ mem_wdata' = mem_wdata
      BY <1>1, <2>1, FreeStays
    <2>3. pc = "fetch" => Answered'
      BY PhasesFollow DEF Engine
    <2> QED
      BY <1>1, <1>4, <2>2, <2>3 DEF Engine
  <1> QED
    BY <1>2, <1>3, <1>4

LEMMA TickProgramIn ==
    ASSUME NEW b \in BOOLEAN, Tick(b), Place, Counters, Words, Halting, Engine, Program_In
    PROVE  Program_In'
  <1>1. /\ pc' = pc /\ back' = back /\ i' = i /\ Program' = Program
    BY SameScript DEF Tick, scriptVars
  <1>2. /\ Program \in Seq(Int) /\ DOMAIN Program = 1..Len(Program) /\ Len(Program) \in Nat
        /\ \A k \in 1..Len(Program) : k - 1 \in Cells
    BY ProgramWords DEF Place, Counters
  <1>3. ASSUME pc \in WordCall, back = "load", NEW k \in 1..(i - 1)
        PROVE  mem'[k - 1] = Program[k]
    <2>1. mem[k - 1] = Program[k]
      BY <1>3 DEF Program_In
    <2>2. CASE pc = "idle"
      <3>1. i \in Nat /\ i <= Len(Program)
        BY <1>3 DEF Counters
      <3>2. k \in 1..Len(Program) /\ k - 1 # i - 1
        BY <1>2, <3>1
      <3>3. k - 1 \in Cells /\ k - 1 # Cell
        BY <1>2, <1>3, <3>2 DEF Cell
      <3> QED
        BY <2>1, <2>2, <3>3, TickEngine
    <2>3. CASE pc # "idle"
      <3>1. mem' = mem
        BY <1>3, <2>3, TickEngine DEF WordCall
      <3> QED
        BY <2>1, <3>1
    <2> QED
      BY <2>2, <2>3
  <1>4. ASSUME (pc \in WordCall /\ back \in {"verify", "show"}) \/ pc \in {"run", "break"}
        PROVE  Loaded(Program)'
    <2>1. Loaded(Program)
      BY <1>4 DEF Program_In
    <2>2. mem' = mem
      BY <1>4, TickEngine DEF WordCall, Writing
    <2> QED
      BY <1>1, <2>1, <2>2 DEF Loaded
  <1> QED
    BY <1>1, <1>3, <1>4 DEF Program_In

LEMMA TickOwnBreak ==
    ASSUME NEW b \in BOOLEAN, Tick(b), Place, Counters, Words, Halting, Engine, OwnBreak
    PROVE  OwnBreak'
  <1> SUFFICES ASSUME pc = "break"
               PROVE  OwnBreak'
    BY DEF OwnBreak, Tick, scriptVars
  <1>1. Clock(b) /\ mem' = mem
    BY TickEngine DEF Tick
  <1>2. run' /\ prev_run'
    BY <1>1 DEF OwnBreak, Clock, MemoryEngine, DebugBridge
  <1>3. CASE ~prev_run
    <2>1. run_edge
      BY <1>3 DEF OwnBreak, run_edge
    <2>2. ~ebreak'
      BY <1>1, <2>1 DEF Clock, Wrapper
    <2> QED
      BY <1>2, <2>2 DEF OwnBreak
  <1>4. CASE prev_run
    <2>1. ebreak => owner = Left("break", mem)
      BY <1>4 DEF OwnBreak
    <2>2. ASSUME ebreak'
          PROVE  owner' = Left("break", mem)
      <3>1. ebreak \/ b
        BY <1>1, <2>2 DEF Clock, Wrapper
      <3>2. CASE b
        BY <1>1, <3>2 DEF Clock, Core
      <3>3. CASE ~b
        <4>1. ~Executing
          BY <3>1, <3>3 DEF Executing, cpu_halted
        <4>2. owner' = owner
          BY <1>1, <3>3, <4>1 DEF Clock, Core
        <4> QED
          BY <2>1, <3>1, <3>3, <4>2
      <3> QED
        BY <3>2, <3>3
    <2>3. Left("break", mem)' = Left("break", mem)
      BY <1>1 DEF Left
    <2> QED
      BY <1>2, <2>2, <2>3 DEF OwnBreak
  <1> QED
    BY <1>3, <1>4

LEMMA TickDumped ==
    ASSUME NEW b \in BOOLEAN, Tick(b), Place, Counters, Halting, Dumped
    PROVE  Dumped'
  <1>1. /\ UNCHANGED scriptVars /\ Clock(b) /\ HaltSeen' = HaltSeen
        /\ rf_addr' = rf_addr /\ rf_data' = RegValue(rf_addr)
    BY SameScript DEF Tick, Clock, Core, MemoryEngine
  <1>2. script' = script /\ args' = args /\ pc' = pc /\ i' = i /\ dumped' = dumped /\ code' = code
    BY <1>1 DEF scriptVars
  <1>3. ASSUME script = "regfile_dump", args.halt, pc \in {"rf_addr", "rf_data"} \/ code = 0
        PROVE  owner' = owner
    BY <1>1, <1>3, HeldStays DEF Halting, HaltSeen
  <1>4. ASSUME owner' = owner
        PROVE  \A k : RegValue(k)' = RegValue(k)
    BY <1>4 DEF RegValue
  <1>5. ASSUME script = "regfile_dump", args.halt
        PROVE  /\ pc \in {"rf_addr", "rf_data"} =>
                    dumped = [k \in 1..(i - 1) |-> RegValue(k - 1)']
               /\ pc = "rf_data" => rf_addr = i - 1 /\ rf_data' = RegValue(i - 1)'
               /\ code = 0 => dumped = [k \in 1..NumRegs |-> RegValue(k - 1)']
    <2>1. pc \in {"rf_addr", "rf_data"} => dumped = [k \in 1..(i - 1) |-> RegValue(k - 1)']
      BY <1>3, <1>4, <1>5 DEF Dumped
    <2>2. pc = "rf_data" => rf_addr = i - 1 /\ rf_data' = RegValue(i - 1)'
      <3>1. pc = "rf_data" => rf_addr = i - 1 /\ owner' = owner
        BY <1>3, <1>5 DEF Dumped
      <3>2. pc = "rf_data" => rf_data' = RegValue(i - 1)
        BY <1>1, <3>1
      <3>3. owner' = owner => RegValue(i - 1)' = RegValue(i - 1)
        BY <1>2 DEF RegValue
      <3> QED
        BY <3>1, <3>2, <3>3
    <2>3. code = 0 => dumped = [k \in 1..NumRegs |-> RegValue(k - 1)']
      BY <1>3, <1>4, <1>5 DEF Dumped
    <2> QED
      BY <2>1, <2>2, <2>3
  <1> QED
    BY <1>1, <1>2, <1>5 DEF Dumped

LEMMA TickSound == ASSUME NEW b \in BOOLEAN, Tick(b), Sound PROVE Sound'
  <1> USE DEF Sound
  <1>1. Place'
    BY DEF Place, Tick, scriptVars
  <1>2. Counters'
    BY SinceTicks, SameScript, CallGapIs DEF Counters, Tick, scriptVars
  <1>3. Line'
    BY SameScript DEF Line, Tick, scriptVars
  <1>4. Words' /\ Halting' /\ Engine' /\ Program_In' /\ OwnBreak' /\ Dumped'
    BY TickWords, TickHalting, TickEngine, TickProgramIn, TickOwnBreak, TickDumped DEF Counters
  <1> QED
    BY <1>1, <1>2, <1>3, <1>4
------------------------------------------------------------------------------
(* One call.                                                                 *)

(* Whoever is told not to halt the CPU is regfile_dump.                      *)
LEMMA HaltAsked ==
    ASSUME Place
    PROVE  /\ args.halt \in BOOLEAN
           /\ ~args.halt \/ args.perf => script = "regfile_dump"
           /\ script \in {"led_blink", "c_blink", "computation", "regfile_dump"}
  BY SessionAssumption DEF Place, Options, Args

LEMMA CallFacts ==
    ASSUME Sound, Returns
    PROVE  /\ Carry /\ since = CallGap /\ since # 0 /\ since' = 0 /\ faults' = faults
           /\ since' \in 0..CallGap /\ faults' \in 0..MaxFaults
           /\ pc # "closed"
           /\ pc \in {"version", "revision", "final", "perf", "halting", "status", "idle",
                      "break", "done", "fetch", "rf_data", "poll"} => UNCHANGED targetVars
           /\ unread' = <<>> \/ unread' = <<Head(unread')>>
           /\ unread = <<>> => unread' = <<>>
           /\ pc = "halt" /\ unread' # <<>> => Head(unread').kind # "read"
           /\ pc = "halting" => unread = <<>> /\ unread' = <<>>
  <1>1. Carry /\ since = CallGap /\ since' = 0 /\ faults' = faults /\ pc # "closed"
    BY ReturnsFacts DEF Returns, Sends, Calling
  <1>2. since # 0 /\ since' \in 0..CallGap /\ faults' \in 0..MaxFaults
    BY <1>1, CallGapIs DEF Sound, Counters
  <1>3. pc \in {"version", "revision", "final", "perf", "halting", "status", "idle",
                "break", "done", "fetch", "rf_data", "poll"} => UNCHANGED targetVars
    BY <1>1, ReadsOnly, Zenon
  <1>4. unread = <<>> \/ unread = <<Head(unread)>>
    BY <1>1, Zenon DEF Sound, Line
  <1>5. unread' = <<>> \/ (unread' = <<Head(unread')>> /\ Head(unread') = Answer(Request))
    BY <1>4, OneLeft, Zenon
  <1>6. unread = <<>> => unread' = <<>>
    BY OwnAnswer, Zenon
  <1>7. pc = "halt" /\ unread' # <<>> => Head(unread').kind # "read"
    <2>1. pc = "halt" => Answer(Request).kind = "write"
      BY Requests, AnswerToWrite, Zenon
    <2>2. "write" # "read"
      OBVIOUS
    <2> QED
      BY <1>5, <2>1, <2>2, Zenon
  <1>8. pc = "halting" => unread = <<>>
    BY <1>4, NobodyElses, Zenon DEF Sound, Line
  <1> QED
    BY <1>1, <1>2, <1>3, <1>5, <1>6, <1>7, <1>8, Zenon

(* A script that ends with an error, or is no dump, leaves nothing to keep.  *)
LEMMA Closes ==
    ASSUME Sound, Words', pc' = "closed", code' \in {0, 1},
           code' = 1 \/ script # "regfile_dump",
           script' = script, args' = args, dumped' = dumped,
           test' \in 1..Len(Programs(script)), i' \in Nat \ {0},
           since' \in 0..CallGap, faults' \in 0..MaxFaults
    PROVE  Sound'
  <1>1. Place'
    BY DEF Sound, Place, NoCode, WordCall
  <1>2. Counters'
    BY DEF Sound, Counters, WordCall
  <1>3. ~HaltSeen'
    BY DEF HaltSeen, WordCall
  <1>4. Halting' /\ Line'
    BY <1>3 DEF Halting, Line
  <1>5. Engine' /\ Program_In' /\ OwnBreak'
    BY DEF Engine, Program_In, OwnBreak, WordCall
  <1>6. Dumped'
    BY DEF Sound, Dumped
  <1> QED
    BY <1>1, <1>2, <1>4, <1>5, <1>6 DEF Sound

(* A step that leaves the hardware alone and comes to a call that needs no   *)
(* more than a halt.                                                         *)
Plain == {"open", "version", "revision", "halt", "status", "addr", "run", "sleep", "poll",
          "final", "done", "perf", "rf_addr"}

LEMMA GoesOn ==
    ASSUME Sound, UNCHANGED targetVars, pc' \in Plain,
           script' = script, args' = args, dumped' = dumped, code' = code,
           Place', Counters', Program_In',
           since' = since \/ since' = 0,
           ~busy, strobe = "none", dbg_state = "IDLE" \/ (dbg_state = "RESPOND" /\ since' = 0),
           unread' = <<>> \/ unread' = <<Head(unread')>>,
           pc' \in {"sleep", "poll"} \/ HaltSeen' => unread' = <<>>,
           HaltSeen' => Held,
           script = "computation" \/ pc \notin {"rf_addr", "rf_data", "closed"},
           pc' = "rf_addr" => i' = 1
    PROVE  Sound'
  <1>1. Words' /\ (Held => Held')
    BY DEF Sound, Words, Held, targetVars, blockVars, crossbarVars, cpuVars, cpu_halted
  <1>2. Halting'
    BY <1>1 DEF Halting, Plain
  <1>3. Line'
    BY DEF Line, Plain
  <1>4. Engine'
    BY DEF Engine, Plain, targetVars, blockVars, crossbarVars
  <1>5. OwnBreak'
    BY DEF OwnBreak, Plain
  <1>6. dumped' = <<>>
    BY DEF Sound, Dumped
  <1>7. Dumped'
    <2>1. Len(dumped') = 0
      BY <1>6
    <2>2. pc' # "rf_data" /\ pc' # "closed"
      BY DEF Plain
    <2>3. code' # 0
      BY <2>2 DEF Place, NoCode
    <2>4. pc' = "rf_addr" => dumped' = [k \in 1..(i' - 1) |-> RegValue(k - 1)']
      BY <1>6
    <2>5. pc' = "rf_addr" => dumped' = [k \in 1..(i' - 1) |-> dumped'[k]]
      BY <1>6
    <2> QED
      BY <1>6, <2>1, <2>2, <2>3, <2>4, <2>5, CallGapIs DEF Dumped
  <1> QED
    BY <1>1, <1>2, <1>3, <1>4, <1>5, <1>7 DEF Sound

(* Asking again.                                                             *)
LEMMA Waits ==
    ASSUME Sound, Returns, pc \in {"halting", "idle", "break"}, UNCHANGED scriptVars
    PROVE  Sound'
  <1>1. UNCHANGED targetVars /\ since' = 0 /\ unread = <<>> /\ unread' = <<>>
        /\ since' \in 0..CallGap /\ faults' \in 0..MaxFaults
    <2>1. unread = <<>>
      BY CallFacts DEF Sound, Line, HaltSeen, WordCall
    <2> QED
      BY <2>1, CallFacts
  <1>2. Place'
    BY DEF Sound, Place, scriptVars
  <1>3. Counters'
    BY <1>1, SameScript DEF Sound, Counters, scriptVars
  <1>4. Words' /\ (Held => Held') /\ HaltSeen' = HaltSeen
    BY <1>1, SameScript
       DEF Sound, Words, Held, targetVars, blockVars, crossbarVars, cpuVars, cpu_halted
  <1>5. Halting'
    BY <1>1, <1>4 DEF Sound, Halting, scriptVars, targetVars, blockVars
  <1>6. Line'
    BY <1>1 DEF Line
  <1>7. Engine'
    <2>1. /\ pc' = pc /\ Writing' = Writing /\ Cell' = Cell /\ Value' = Value
      BY SameScript DEF scriptVars
    <2>2. pc = "idle" => (Asked' \/ Accessing' \/ Answering' \/ Answered')
      BY <1>1, <2>1 DEF Sound, Engine, Asked, Accessing, Answering, Answered, Stored,
                        targetVars, blockVars, crossbarVars
    <2> QED
      BY <1>1, <2>1, <2>2, CallFacts
         DEF Sound, Engine, targetVars, blockVars, crossbarVars
  <1>8. Program_In'
    BY <1>1, SameScript
       DEF Sound, Program_In, Loaded, scriptVars, targetVars, crossbarVars
  <1>9. OwnBreak'
    BY <1>1 DEF Sound, OwnBreak, scriptVars, targetVars, blockVars, crossbarVars, cpuVars, Left
  <1>10. Dumped'
    <2>1. /\ script' = script /\ pc' = pc /\ dumped' = dumped /\ code' = code /\ i' = i
          /\ args' = args /\ pc \notin {"rf_addr", "rf_data", "closed"}
      BY DEF scriptVars
    <2>2. code # 0
      BY <2>1 DEF Sound, Place, NoCode
    <2>3. dumped = <<>> /\ Len(dumped) <= NumRegs
      BY <2>1 DEF Sound, Dumped
    <2> QED
      BY <2>1, <2>2, <2>3, Zenon DEF Dumped
  <1> QED
    BY <1>2, <1>3, <1>4, <1>5, <1>6, <1>7, <1>8, <1>9, <1>10, Zenon DEF Sound
------------------------------------------------------------------------------
(* The steps that leave the hardware alone.                                  *)

LEMMA EngineFree ==
    ASSUME Sound, pc \notin {"idle", "closed"}
    PROVE  /\ ~busy /\ strobe = "none"
           /\ dbg_state = "IDLE" \/ (dbg_state = "RESPOND" /\ since = 0)
           /\ code = NoCode /\ code # 0
  BY DEF Sound, Engine, Place, NoCode

(* Where the script needs nothing of the hardware yet, or no more.           *)
Easy == {"open", "version", "revision", "halt", "final", "done"}

LEMMA GoesEasy ==
    ASSUME Sound, UNCHANGED targetVars, pc \notin {"idle", "closed"}, pc' \in Easy,
           script = "computation" \/ pc \notin {"rf_addr", "rf_data"},
           pc' = "halt" => \/ back' = "boot"
                           \/ back' = "stop" /\ script \in Blinkers
                           \/ back' = "give_up" /\ script = "computation",
           pc' = "final" => script \in Blinkers,
           pc' = "done" => script = "computation",
           script' = script, args' = args, dumped' = dumped, code' = code,
           test' \in 1..Len(Programs(script)), i' \in Nat \ {0},
           since' = since \/ since' = 0, faults' \in 0..MaxFaults,
           unread' = <<>> \/ unread' = <<Head(unread')>>
    PROVE  Sound'
  <1>1. /\ ~busy /\ strobe = "none" /\ code = NoCode /\ code # 0
        /\ dbg_state = "IDLE" \/ (dbg_state = "RESPOND" /\ since' = 0)
    BY EngineFree
  <1>2. Place'
    BY <1>1 DEF Sound, Place, Easy, WordCall
  <1>3. Counters'
    <2>1. since' \in 0..CallGap
      BY CallGapIs DEF Sound, Counters
    <2> QED
      BY <2>1 DEF Counters, Easy, WordCall
  <1>4. Program_In'
    BY DEF Program_In, Easy, WordCall
  <1>5. ~HaltSeen' /\ pc' \in Plain /\ pc' \notin {"sleep", "poll", "rf_addr"}
    BY <1>1 DEF HaltSeen, Easy, WordCall, Plain
  <1> QED
    BY <1>1, <1>2, <1>3, <1>4, <1>5, GoesOn

LEMMA StaysInRange ==
    ASSUME Sound
    PROVE  /\ test \in 1..Len(Programs(script)) /\ i \in Nat \ {0} /\ 1 \in Nat \ {0}
           /\ i + 1 \in Nat \ {0}
           /\ since \in 0..CallGap /\ faults \in 0..MaxFaults
           /\ pc # "closed" => unread = <<>> \/ unread = <<Head(unread)>>
           /\ Words /\ (UNCHANGED targetVars => Words')
  BY DEF Sound, Counters, Line, Words, targetVars, blockVars, crossbarVars

LEMMA LocalSound == ASSUME Sound, Prepare \/ Open PROVE Sound'
  <1>1. UNCHANGED <<targetVars, seen, unread, since>>
    BY DEF Prepare, Open, lineVars
  <1>2. ASSUME Prepare PROVE Sound'
    <2>1. CASE args.file # "good"
      BY <1>1, <1>2, <2>1, Closes, StaysInRange DEF Prepare, End, Exit, lineVars
    <2>2. CASE args.file = "good"
      BY <1>1, <1>2, <2>2, GoesEasy, StaysInRange DEF Prepare, To, Easy, lineVars
    <2> QED
      BY <2>1, <2>2
  <1>3. ASSUME Open PROVE Sound'
    <2>1. CASE To("version") /\ UNCHANGED faults
      BY <1>1, <1>3, <2>1, GoesEasy, StaysInRange DEF Open, To, Easy
    <2>2. CASE Fault /\ End(1)
      <3>1. faults' \in 0..MaxFaults
        BY <2>2, StaysInRange, CallGapIs DEF Fault
      <3> QED
        BY <1>1, <2>2, <3>1, Closes, StaysInRange DEF End, Exit
    <2> QED
      BY <1>3, <2>1, <2>2 DEF Open
  <1> QED
    BY <1>2, <1>3

(* The next test, or the end.                                                *)
LEMMA NextTestSound ==
    ASSUME Sound, NEW passed, NextTest(passed), script = "computation",
           pc \notin {"idle", "closed"}, UNCHANGED targetVars,
           since' = since \/ since' = 0, faults' = faults,
           unread' = <<>> \/ unread' = <<Head(unread')>>
    PROVE  Sound'
  <1>1. UNCHANGED <<script, args, i, dumped>>
    BY DEF NextTest
  <1>2. CASE test < Len(Programs(script))
    <2>1. pc' = "halt" /\ back' = "boot" /\ test' = test + 1 /\ code' = code
      BY <1>2 DEF NextTest
    <2>2. test' \in 1..Len(Programs(script))
      <3>1. Len(Programs(script)) \in Nat
        BY SessionAssumption DEF Sound, Place
      <3> QED
        BY <1>2, <2>1, <3>1, StaysInRange
    <2> QED
      BY <1>1, <2>1, <2>2, GoesEasy, StaysInRange DEF Easy
  <1>3. CASE ~(test < Len(Programs(script)))
    <2>1. pc' = "closed" /\ code' \in {0, 1} /\ test' = test
      BY <1>3 DEF NextTest, Exit
    <2>2. since' \in 0..CallGap
      BY StaysInRange, CallGapIs
    <2> QED
      BY <1>1, <2>1, <2>2, Closes, StaysInRange
  <1> QED
    BY <1>2, <1>3

(* What halt_cpu was called for.                                             *)
LEMMA AfterHaltSound ==
    ASSUME Sound, NEW in_time \in BOOLEAN, pc = "halting", AfterHalt(in_time),
           UNCHANGED targetVars, since' = since \/ since' = 0, faults' = faults,
           unread' = <<>> \/ unread' = <<Head(unread')>>,
           in_time => Held /\ unread' = <<>>
    PROVE  Sound'
  <1>1. /\ \/ back = "boot"
           \/ back = "stop" /\ script \in Blinkers
           \/ back = "give_up" /\ script = "computation"
        /\ Place /\ since' \in 0..CallGap
    BY CallGapIs, StaysInRange DEF Sound, Place
  <1>2. CASE back = "stop"
    <2>1. To("final")
      BY <1>2 DEF AfterHalt
    <2> QED
      BY <1>1, <1>2, <2>1, GoesEasy, StaysInRange DEF To, Easy
  <1>3. CASE back = "give_up"
    <2>1. NextTest(FALSE)
      BY <1>3 DEF AfterHalt
    <2> QED
      BY <1>1, <1>3, <2>1, NextTestSound
  <1>4. CASE back = "boot" /\ script = "computation"
    <2>1. IF in_time THEN Enter("addr", "load") ELSE NextTest(FALSE)
      BY <1>4 DEF AfterHalt
    <2>2. CASE ~in_time
      BY <1>4, <2>1, <2>2, NextTestSound
    <2>3. CASE in_time
      <3>1. /\ pc' = "addr" /\ back' = "load" /\ i' = 1
            /\ UNCHANGED <<script, args, test, ok, dumped, code>>
        BY <2>1, <2>3 DEF Enter
      <3>2. /\ ~busy /\ strobe = "none" /\ code = NoCode
            /\ dbg_state = "IDLE" \/ (dbg_state = "RESPOND" /\ since' = 0)
        BY EngineFree
      <3>3. Place'
        BY <1>1, <1>4, <3>1, <3>2 DEF Place, WordCall
      <3>4. Counters'
        <4>1. Len(Program') \in Nat \ {0} /\ test' \in 1..Len(Programs(script'))
              /\ faults' \in 0..MaxFaults
          BY <1>1, <3>1, ProgramWords, StaysInRange DEF Place, Program
        <4> QED
          BY <1>1, <3>1, <4>1 DEF Counters
      <3>5. Program_In'
        BY <3>1 DEF Program_In
      <3>6. pc' \in Plain
        BY <3>1 DEF Plain
      <3> QED
        BY <2>3, <3>1, <3>2, <3>3, <3>4, <3>5, <3>6, GoesOn
    <2> QED
      BY <2>2, <2>3
  <1>5. CASE back = "boot" /\ script # "computation"
    <2>1. IF in_time THEN To("status") ELSE End(1)
      BY <1>5 DEF AfterHalt
    <2>2. CASE ~in_time
      BY <1>1, <2>1, <2>2, Closes, StaysInRange DEF End, Exit
    <2>3. CASE in_time
      <3>1. pc' = "status" /\ i' = 1 /\ UNCHANGED <<script, args, back, test, ok, dumped, code>>
        BY <2>1, <2>3 DEF To
      <3>2. /\ ~busy /\ strobe = "none" /\ code = NoCode
            /\ dbg_state = "IDLE" \/ (dbg_state = "RESPOND" /\ since' = 0)
        BY EngineFree
      <3>3. Place'
        BY <1>1, <3>1, <3>2 DEF Place, WordCall
      <3>4. Counters'
        BY <1>1, <3>1, StaysInRange DEF Counters, WordCall
      <3>5. Program_In'
        BY <3>1 DEF Program_In, WordCall
      <3>6. pc' \in Plain
        BY <3>1 DEF Plain
      <3> QED
        BY <2>3, <3>1, <3>2, <3>3, <3>4, <3>5, <3>6, GoesOn
    <2> QED
      BY <2>2, <2>3
  <1> QED
    BY <1>1, <1>2, <1>3, <1>4, <1>5
LEMMA HaltPollSound == ASSUME Sound, HaltPoll PROVE Sound'
  <1>1. pc = "halting" /\ Returns /\ UNCHANGED targetVars
        /\ IF seen'.halted THEN AfterHalt(TRUE) ELSE UNCHANGED scriptVars
    BY CallFacts DEF HaltPoll
  <1>2. CASE ~seen'.halted
    BY <1>1, <1>2, Waits
  <1>3. CASE seen'.halted
    <2>1. seen' = CtrlValue /\ unread' = <<>>
      <3>1. unread = <<>> /\ Request = ReadReg("CTRL")
        BY <1>1, CallFacts, Requests
      <3>2. seen' = ReadRegister("CTRL") /\ unread' = <<>>
        BY <1>1, <3>1, OwnAnswer, Zenon
      <3> QED
        BY <3>2 DEF ReadRegister
    <2>2. cpu_halted
      BY <1>3, <2>1 DEF CtrlValue
    <2>3. Held
      BY <1>1, <2>2, CallFacts DEF Sound, Halting, Held
    <2> QED
      BY <1>1, <1>3, <2>1, <2>3, AfterHaltSound, CallFacts
  <1> QED
    BY <1>2, <1>3

LEMMA HaltDeadlineSound == ASSUME Sound, HaltDeadline PROVE Sound'
  <1>1. pc = "halting" /\ AfterHalt(FALSE) /\ UNCHANGED <<lineVars, targetVars>>
    BY DEF HaltDeadline
  <1>2. unread' = <<>> \/ unread' = <<Head(unread')>>
    BY <1>1, StaysInRange DEF lineVars
  <1> QED
    BY <1>1, <1>2, AfterHaltSound DEF lineVars

LEMMA VersionSound == ASSUME Sound, Version PROVE Sound'
  <1>1. pc = "version" /\ Returns /\ To("revision") /\ UNCHANGED targetVars
    BY CallFacts DEF Version
  <1> QED
    BY <1>1, CallFacts, GoesEasy, StaysInRange DEF To, Easy

LEMMA FinalSound == ASSUME Sound, Final PROVE Sound'
  <1>1. /\ pc = "final" /\ Returns /\ UNCHANGED targetVars
        /\ IF i < FinalReads THEN Again("final") ELSE End(0)
    BY CallFacts DEF Final
  <1>2. script \in Blinkers
    BY <1>1 DEF Sound, Place
  <1>3. CASE Again("final")
    BY <1>1, <1>2, <1>3, CallFacts, GoesEasy, StaysInRange DEF Again, Easy
  <1>4. CASE End(0)
    BY <1>1, <1>2, <1>4, CallFacts, Closes, StaysInRange DEF End, Exit, Blinkers
  <1> QED
    BY <1>1, <1>3, <1>4

LEMMA BreakDeadlineSound == ASSUME Sound, BreakDeadline PROVE Sound'
  <1>1. pc = "break" /\ Enter("halt", "give_up") /\ UNCHANGED <<lineVars, targetVars>>
    BY DEF BreakDeadline
  <1>2. script = "computation"
    BY <1>1 DEF Sound, Place
  <1> QED
    BY <1>1, <1>2, GoesEasy, StaysInRange DEF Enter, Easy, lineVars

(* Calls made for a script that has seen the CPU halted, or needs not.       *)
LEMMA RevisionSound == ASSUME Sound, Revision PROVE Sound'
  <1>1. /\ pc = "revision" /\ Returns /\ UNCHANGED targetVars
        /\ IF args.halt THEN Enter("halt", "boot") ELSE To("status")
    BY CallFacts DEF Revision
  <1>2. CASE args.halt
    BY <1>1, <1>2, CallFacts, GoesEasy, StaysInRange DEF Enter, Easy
  <1>3. CASE ~args.halt
    <2>1. pc' = "status" /\ i' = 1 /\ UNCHANGED <<script, args, back, test, ok, dumped, code>>
      BY <1>1, <1>3 DEF To
    <2>2. /\ ~busy /\ strobe = "none" /\ code = NoCode
          /\ dbg_state = "IDLE" \/ (dbg_state = "RESPOND" /\ since' = 0)
      BY <1>1, EngineFree, CallFacts
    <2>3. Place'
      BY <2>1, <2>2 DEF Sound, Place, WordCall
    <2>4. Counters'
      BY <1>1, <2>1, StaysInRange, CallFacts DEF Counters, WordCall
    <2>5. Program_In'
      BY <2>1 DEF Program_In, WordCall
    <2>6. pc' \in Plain /\ ~HaltSeen' /\ pc' \notin {"sleep", "poll", "rf_addr"}
      BY <1>3, <2>1, <2>2 DEF Plain, HaltSeen, WordCall, NoCode
    <2> QED
      BY <1>1, <2>1, <2>2, <2>3, <2>4, <2>5, <2>6, GoesOn, CallFacts
  <1> QED
    BY <1>2, <1>3

(* The blinking loop.                                                        *)
LEMMA BlinkSound == ASSUME Sound, Sleep \/ Poll PROVE Sound'
  <1>1. /\ pc \in {"sleep", "poll"} /\ script \in Blinkers /\ unread = <<>> /\ unread' = <<>>
        /\ UNCHANGED targetVars /\ (since' = since \/ since' = 0) /\ faults' = faults
        /\ To("sleep") \/ To("poll") \/ Again("poll")
    BY CallFacts DEF Sleep, Poll, lineVars, Sound, Line, Place
  <1>2. /\ pc' \in {"sleep", "poll"} /\ i' \in Nat \ {0}
        /\ UNCHANGED <<script, args, back, test, ok, dumped, code>>
    BY <1>1, StaysInRange DEF To, Again
  <1>3. /\ ~busy /\ strobe = "none" /\ code = NoCode /\ code # 0
        /\ dbg_state = "IDLE" \/ (dbg_state = "RESPOND" /\ since' = 0)
    BY <1>1, EngineFree
  <1>4. Place'
    BY <1>1, <1>2, <1>3 DEF Sound, Place, WordCall
  <1>5. Counters'
    <2>1. since' \in 0..CallGap
      BY <1>1, StaysInRange, CallGapIs
    <2> QED
      BY <1>1, <1>2, <2>1, StaysInRange DEF Counters, WordCall
  <1>6. Program_In'
    BY <1>2 DEF Program_In, WordCall
  <1>7. pc' \in Plain /\ ~HaltSeen'
    BY <1>1, <1>2, <1>3 DEF Plain, HaltSeen, WordCall
  <1> QED
    BY <1>1, <1>2, <1>3, <1>4, <1>5, <1>6, <1>7, GoesOn

LEMMA DoneSound == ASSUME Sound, Done PROVE Sound'
  <1>1. pc = "done" /\ Returns /\ To("rf_addr") /\ UNCHANGED targetVars /\ script = "computation"
    BY CallFacts DEF Done, Sound, Place
  <1>2. pc' = "rf_addr" /\ i' = 1 /\ UNCHANGED <<script, args, back, test, ok, dumped, code>>
    BY <1>1 DEF To
  <1>3. /\ ~busy /\ strobe = "none" /\ code = NoCode
        /\ dbg_state = "IDLE" \/ (dbg_state = "RESPOND" /\ since' = 0)
    BY <1>1, EngineFree, CallFacts
  <1>4. Place'
    BY <1>2, <1>3 DEF Sound, Place, WordCall
  <1>5. Counters'
    BY <1>1, <1>2, StaysInRange, CallFacts, CallGapIs DEF Counters, WordCall
  <1>6. Program_In'
    BY <1>2 DEF Program_In, WordCall
  <1>7. pc' \in Plain /\ ~HaltSeen' /\ pc' \notin {"sleep", "poll"}
    BY <1>1, <1>2, <1>3 DEF Plain, HaltSeen, WordCall, NoCode
  <1> QED
    BY <1>1, <1>2, <1>3, <1>4, <1>5, <1>6, <1>7, GoesOn, CallFacts

LEMMA StatusSound == ASSUME Sound, Status \/ Perf PROVE Sound'
  <1>1. /\ pc \in {"status", "perf"} /\ Returns /\ UNCHANGED targetVars
        /\ \/ /\ script = "regfile_dump"
              /\ To("perf") \/ Again("perf") \/ To("rf_addr")
           \/ /\ pc = "status" /\ script # "regfile_dump"
              /\ Enter("addr", "check_w") \/ Enter("addr", "load")
    <2>1. pc = "perf" => script = "regfile_dump"
      BY DEF Sound, Place
    <2>2. CASE Status
      BY <2>2, CallFacts DEF Status
    <2>3. CASE Perf
      BY <2>1, <2>3, CallFacts DEF Perf
    <2> QED
      BY <2>2, <2>3
  <1>2. /\ pc' \in {"perf", "rf_addr", "addr"} /\ i' \in Nat \ {0} /\ (pc' # "perf" => i' = 1)
        /\ UNCHANGED <<script, args, test, ok, dumped, code>>
        /\ IF pc' = "addr" THEN script # "regfile_dump" /\ pc = "status" ELSE script = "regfile_dump"
        /\ pc' = "addr" => back' \in {"check_w", "load"}
    BY <1>1, StaysInRange DEF To, Again, Enter
  <1>3. /\ ~busy /\ strobe = "none" /\ code = NoCode /\ code # 0
        /\ dbg_state = "IDLE" \/ (dbg_state = "RESPOND" /\ since' = 0)
    BY <1>1, EngineFree, CallFacts
  <1>4. Place'
    BY <1>2, <1>3 DEF Sound, Place, WordCall
  <1>5. Counters'
    <2>1. Len(Program') \in Nat \ {0}
      BY <1>2, ProgramWords, StaysInRange DEF Sound, Place, Program
    <2>2. Len(Patterns) > 0 /\ Len(Patterns) \in Nat
      BY SessionAssumption
    <2> QED
      BY <1>1, <1>2, <2>1, <2>2, StaysInRange, CallFacts, CallGapIs DEF Counters, WordCall
  <1>6. Program_In'
    <2>1. CASE pc' = "addr"
      <3>1. i' = 1 /\ back' \in {"check_w", "load"}
        BY <1>2, <2>1
      <3> QED
        BY <2>1, <3>1 DEF Program_In
    <2>2. CASE pc' # "addr"
      BY <1>2, <2>2 DEF Program_In, WordCall
    <2> QED
      BY <2>1, <2>2
  <1>7. pc' \in Plain /\ pc' \notin {"sleep", "poll"}
    BY <1>2 DEF Plain
  <1>8. HaltSeen' => HaltSeen
    BY <1>1, <1>2, <1>3, HaltAsked DEF HaltSeen, WordCall, Sound
  <1>9. HaltSeen' => Held /\ unread' = <<>>
    BY <1>1, <1>8, CallFacts DEF Sound, Halting, Line
  <1> QED
    BY <1>1, <1>2, <1>3, <1>4, <1>5, <1>6, <1>7, <1>9, GoesOn, CallFacts
------------------------------------------------------------------------------
(* The words of a program, one after the other.                              *)

(* What a word access leads to once the word is there.                       *)
LEMMA NextWordMoves ==
    ASSUME Sound, pc \in WordCall, NEW same, NextWord(same)
    PROVE  /\ UNCHANGED <<script, args, test, dumped>>
           /\ i \in Nat \ {0}
           /\ \/ pc' = "closed" /\ code' = 1 /\ i' = i
              \/ /\ code' = code
                 /\ \/ /\ pc' = "addr" /\ back' \in {"check_w", "check_r"}
                       /\ i' \in 1..Len(Patterns)
                    \/ pc' = "addr" /\ back' = "load" /\ i' = 1
                    \/ /\ pc' = "addr" /\ back' = back /\ i' = i + 1 /\ i < Len(Program)
                       /\ back \in {"load", "verify", "show"}
                    \/ /\ pc' = "addr" /\ back' \in {"verify", "show"} /\ i' = 1
                       /\ back = "load" /\ i = Len(Program)
                    \/ /\ pc' = "run" /\ i' = 1
                       /\ \/ back = "load" /\ i = Len(Program)
                          \/ back \in {"verify", "show"}
  <1> USE DEF To, Again, Enter, End, Exit
  <1>1. /\ i \in Nat \ {0} /\ Len(Program) \in Nat \ {0} /\ Len(Patterns) \in Nat \ {0}
        /\ back \in {"check_w", "check_r", "load", "verify", "show"}
        /\ i <= IF back \in {"check_w", "check_r"} THEN Len(Patterns) ELSE Len(Program)
    BY ProgramWords, SessionAssumption DEF Sound, Place, Counters
  <1>2. CASE back = "check_w"
    BY <1>1, <1>2 DEF NextWord
  <1>3. CASE back = "check_r" /\ i < Len(Patterns)
    <2>1. /\ pc' = "addr" /\ back' = "check_w" /\ i' = i + 1
          /\ UNCHANGED <<script, args, test, dumped, code>>
      <3>1. /\ i # Len(Patterns)
            /\ back # "check_w" /\ back # "load" /\ back # "show" /\ back # "verify"
        BY <1>1, <1>3
      <3> QED
        BY <1>3, <3>1, Zenon DEF NextWord
    <2>2. i + 1 \in 1..Len(Patterns)
      BY <1>1, <1>3
    <2> QED
      BY <1>1, <2>1, <2>2
  <1>4. CASE back = "check_r" /\ i = Len(Patterns)
    <2>1. IF ok /\ same THEN Enter("addr", "load") ELSE End(1)
      BY <1>1, <1>4 DEF NextWord
    <2> QED
      BY <1>1, <2>1
  <1>5. CASE back = "load"
    <2>1. IF i < Len(Program) THEN Again("addr")
          ELSE IF args.verify THEN Enter("addr", "verify")
          ELSE IF args.dump THEN Enter("addr", "show") ELSE To("run")
      BY <1>1, <1>5 DEF NextWord
    <2> QED
      BY <1>1, <1>5, <2>1
  <1>6. CASE back = "show"
    <2>1. IF i < Len(Program) THEN Again("addr") ELSE To("run")
      BY <1>1, <1>6 DEF NextWord
    <2> QED
      BY <1>1, <1>6, <2>1
  <1>7. CASE back = "verify" /\ i < Len(Program)
    BY <1>1, <1>7 DEF NextWord
  <1>8. CASE back = "verify" /\ i = Len(Program)
    <2>1. IF ok /\ same THEN To("run") ELSE End(1)
      BY <1>1, <1>8 DEF NextWord
    <2> QED
      BY <1>1, <1>8, <2>1
  <1> QED
    BY <1>1, <1>2, <1>3, <1>4, <1>5, <1>6, <1>7, <1>8

LEMMA NextWordSound ==
    ASSUME Sound, pc \in WordCall, NEW same, NextWord(same),
           UNCHANGED targetVars, since' = 0, faults' = faults, unread' = <<>>,
           ~busy, strobe = "none", dbg_state \in {"IDLE", "RESPOND"},
           Writing => mem[Cell] = Value
    PROVE  Sound'
  <1>1. /\ UNCHANGED <<script, args, test, dumped>> /\ Program' = Program
        /\ Words' /\ since' \in 0..CallGap /\ faults' \in 0..MaxFaults
        /\ test' \in 1..Len(Programs(script)) /\ mem' = mem
    BY NextWordMoves, StaysInRange, CallGapIs DEF Program, targetVars, crossbarVars
  <1>2. CASE pc' = "closed" /\ code' = 1 /\ i' = i
    BY <1>1, <1>2, Closes, NextWordMoves
  <1>3. CASE pc' # "closed"
    <2>1. /\ Program \in Seq(Int) /\ Len(Program) \in Nat \ {0}
          /\ DOMAIN Program = 1..Len(Program) /\ i \in Nat \ {0}
      BY ProgramWords, StaysInRange DEF Sound, Place
    <2>2. /\ pc' \in {"addr", "run"} /\ i' \in Nat \ {0} /\ code' = code
          /\ code' = NoCode /\ script # "regfile_dump" /\ HaltSeen
      BY <1>3, NextWordMoves, EngineFree DEF Sound, Place, WordCall, HaltSeen, NoCode
    <2>3. Place'
      BY <1>1, <2>2, NextWordMoves DEF Sound, Place, WordCall
    <2>4. Counters'
      <3>1. pc' = "addr" =>
              i' <= IF back' \in {"check_w", "check_r"} THEN Len(Patterns) ELSE Len(Program)
        <4>1. \/ back' \in {"check_w", "check_r"} /\ i' \in 1..Len(Patterns)
              \/ back' = "load" /\ i' = 1
              \/ /\ back' = back /\ i' = i + 1 /\ i < Len(Program)
                 /\ back \in {"load", "verify", "show"}
              \/ back' \in {"verify", "show"} /\ i' = 1
              \/ pc' = "run"
          BY <1>3, NextWordMoves
        <4>2. back' \in {"check_w", "check_r"} /\ i' \in 1..Len(Patterns) => i' <= Len(Patterns)
          OBVIOUS
        <4>3. i < Len(Program) => i + 1 <= Len(Program)
          BY <2>1
        <4>4. 1 <= Len(Program)
          BY <2>1
        <4> QED
          BY <4>1, <4>2, <4>3, <4>4
      <3> QED
        BY <1>1, <2>2, <3>1 DEF Counters, WordCall
    <2>5. back = "load" => \A k \in 1..i : mem[k - 1] = Program[k]
      <3> SUFFICES ASSUME back = "load", NEW k \in 1..i
                   PROVE  mem[k - 1] = Program[k]
        OBVIOUS
      <3>1. CASE k = i
        BY <3>1 DEF Writing, Cell, Value
      <3>2. CASE k # i
        <4>1. k \in 1..(i - 1)
          BY <2>1, <3>2
        <4> QED
          BY <4>1 DEF Sound, Program_In
      <3> QED
        BY <3>1, <3>2
    <2>6. back \in {"verify", "show"} => Loaded(Program)
      BY DEF Sound, Program_In
    <2>7. back = "load" /\ i = Len(Program) => Loaded(Program)
      BY <2>1, <2>5 DEF Loaded
    <2>8. (Loaded(Program) => Loaded(Program)')
      BY <1>1 DEF Loaded
    <2>9. Program_In'
      <3>1. CASE pc' = "addr" /\ back' \in {"check_w", "check_r"}
        BY <3>1 DEF Program_In
      <3>2. CASE pc' = "addr" /\ back' = "load" /\ i' = 1
        BY <3>2 DEF Program_In
      <3>3. CASE pc' = "addr" /\ back' = "load" /\ back = "load" /\ i' = i + 1
        <4>1. \A k \in 1..i : mem'[k - 1] = Program'[k]
          BY <1>1, <2>5, <3>3
        <4>2. i' - 1 = i
          BY <2>1, <3>3
        <4> QED
          BY <3>3, <4>1, <4>2 DEF Program_In
      <3>4. CASE pc' = "addr" /\ back' \in {"verify", "show"}
        <4>1. Loaded(Program)'
          BY <1>3, <2>6, <2>7, <2>8, <3>4, NextWordMoves
        <4> QED
          BY <3>4, <4>1 DEF Program_In
      <3>5. CASE pc' = "run"
        <4>1. Loaded(Program)'
          BY <1>3, <2>6, <2>7, <2>8, <3>5, NextWordMoves
        <4> QED
          BY <3>5, <4>1 DEF Program_In, WordCall
      <3> QED
        BY <1>3, <3>1, <3>2, <3>3, <3>4, <3>5, NextWordMoves
    <2>10. Held
      BY <2>2 DEF Sound, Halting
    <2>11. /\ pc' \in Plain /\ pc' \notin {"sleep", "poll", "rf_addr"}
           /\ pc \notin {"rf_addr", "rf_data", "closed"}
      BY <2>2 DEF Plain, WordCall
    <2>12. dbg_state = "IDLE" \/ (dbg_state = "RESPOND" /\ since' = 0)
      OBVIOUS
    <2> QED
      BY <1>1, <2>2, <2>3, <2>4, <2>9, <2>10, <2>11, <2>12, GoesOn
  <1> QED
    BY <1>2, <1>3, NextWordMoves

(* Calls made with nothing but the own answer on the line.                   *)
LEMMA QuietCall ==
    ASSUME Sound, Returns, HaltSeen \/ pc = "break"
    PROVE  /\ unread = <<>> /\ unread' = <<>>
           /\ \A reg : Request = ReadReg(reg) => seen' = ReadRegister(reg)
  <1>1. unread = <<>>
    BY CallFacts DEF Sound, Line
  <1> QED
    BY <1>1, OwnAnswer

(* From call to call within one word access.                                 *)
LEMMA WordStep ==
    ASSUME Sound, Returns, pc \in WordCall, Then(pc'), pc' \in WordCall,
           mem' = mem, Words', ~run', UNCHANGED cpuVars, Engine'
    PROVE  Sound'
  <1>1. /\ UNCHANGED <<script, args, back, i, test, ok, dumped, code>>
        /\ since' \in 0..CallGap /\ faults' \in 0..MaxFaults
    BY CallFacts DEF Then
  <1>2. unread' = <<>> /\ HaltSeen
    BY QuietCall DEF HaltSeen
  <1>3. /\ Writing' = Writing /\ Cell' = Cell /\ Value' = Value /\ Program' = Program
    BY <1>1 DEF Writing, Cell, Value, Program
  <1>4. pc' # "closed" /\ pc # "closed"
    BY DEF WordCall
  <1>5. Place'
    <2>1. back \in {"check_w", "check_r", "load", "verify", "show"} /\ script # "regfile_dump"
          /\ code = NoCode
      BY <1>4 DEF Sound, Place
    <2> QED
      BY <1>1, <2>1 DEF Sound, Place, WordCall
  <1>6. Counters'
    BY <1>1, <1>3 DEF Sound, Counters, WordCall
  <1>7. Held'
    BY <1>2 DEF Sound, Halting, Held, cpuVars, cpu_halted
  <1>8. Halting' /\ Line'
    BY <1>2, <1>7 DEF Halting, Line, WordCall
  <1>9. Program_In'
    BY <1>1, <1>2, <1>3 DEF Sound, Program_In, Loaded, WordCall
  <1>10. OwnBreak'
    BY DEF OwnBreak, WordCall
  <1>11. Dumped'
    <2>1. pc \notin {"rf_addr", "rf_data", "closed"} /\ pc' \notin {"rf_addr", "rf_data", "closed"}
          /\ code # 0
      BY DEF Sound, Place, NoCode, WordCall
    <2>2. dumped' = <<>> /\ Len(dumped') <= NumRegs
      BY <1>1, <2>1 DEF Sound, Dumped
    <2> QED
      BY <1>1, <2>1, <2>2, Zenon DEF Dumped
  <1> QED
    BY <1>5, <1>6, <1>8, <1>9, <1>10, <1>11, Zenon DEF Sound

LEMMA FetchSound == ASSUME Sound, Fetch PROVE Sound'
  <1>1. /\ pc = "fetch" /\ Returns /\ UNCHANGED targetVars /\ since' = 0 /\ faults' = faults
        /\ NextWord(seen'.word = Value)
    BY CallFacts DEF Fetch
  <1>2. pc \in WordCall /\ unread' = <<>>
    BY <1>1, QuietCall DEF WordCall, HaltSeen
  <1>3. /\ ~busy /\ strobe = "none" /\ dbg_state \in {"IDLE", "RESPOND"}
        /\ Writing => mem[Cell] = Value
    BY <1>1 DEF Sound, Engine, Answering, Answered, Stored
  <1> QED
    BY <1>1, <1>2, <1>3, NextWordSound

LEMMA WaitIdleSound == ASSUME Sound, WaitIdle PROVE Sound'
  <1>1. /\ pc = "idle" /\ Returns /\ UNCHANGED targetVars /\ since' = 0 /\ faults' = faults
        /\ since' \in 0..CallGap /\ faults' \in 0..MaxFaults
        /\ IF seen'.busy THEN UNCHANGED scriptVars
           ELSE IF Writing THEN NextWord(TRUE) ELSE Then("fetch")
    BY CallFacts DEF WaitIdle
  <1>2. pc \in WordCall /\ HaltSeen /\ unread' = <<>> /\ seen' = CtrlValue
    BY <1>1, QuietCall, Requests DEF WordCall, HaltSeen, ReadRegister
  <1>3. CASE seen'.busy
    BY <1>1, <1>3, Waits
  <1>4. CASE ~seen'.busy
    <2>1. ~busy
      BY <1>2, <1>4 DEF CtrlValue
    <2>2. Answering \/ Answered
      BY <1>1, <2>1 DEF Sound, Engine, Asked, Accessing
    <2>3. /\ strobe = "none" /\ dbg_state \in {"IDLE", "RESPOND"}
          /\ Writing => mem[Cell] = Value
      BY <2>2 DEF Answering, Answered, Stored
    <2>4. CASE Writing
      <3>1. NextWord(TRUE)
        BY <1>1, <1>4, <2>4
      <3> QED
        BY <1>1, <1>2, <2>1, <2>3, <3>1, NextWordSound
    <2>5. CASE ~Writing
      <3>1. pc' = "fetch" /\ Then(pc')
        BY <1>1, <1>4, <2>5 DEF Then
      <3>2. Writing' = Writing /\ Cell' = Cell /\ Value' = Value
        BY <3>1 DEF Then, Writing, Cell, Value, Program
      <3>3. Answering' \/ Answered'
        BY <1>1, <2>2, <3>2
           DEF Answering, Answered, Stored, targetVars, blockVars, crossbarVars
      <3>4. ~busy' /\ strobe' = "none"
            /\ (dbg_state' = "IDLE" \/ (dbg_state' = "RESPOND" /\ since' = 0))
        BY <1>1, <3>3 DEF Answering, Answered
      <3>5. Engine'
        BY <2>5, <3>1, <3>2, <3>3, <3>4 DEF Engine
      <3>6. Words' /\ mem' = mem /\ ~run' /\ UNCHANGED cpuVars
        BY <1>1, <1>2, StaysInRange DEF Sound, Halting, Held, targetVars, blockVars, crossbarVars
      <3>7. pc' \in WordCall
        BY <3>1 DEF WordCall
      <3> QED
        BY <1>1, <1>2, <3>1, <3>5, <3>6, <3>7, WordStep
    <2> QED
      BY <2>4, <2>5
  <1> QED
    BY <1>3, <1>4
LEMMA PutAddrSound == ASSUME Sound, PutAddr PROVE Sound'
  <1>1. /\ pc = "addr" /\ Returns /\ Carry /\ since # 0
        /\ Then(IF Writing THEN "data" ELSE "ask")
    BY CallFacts DEF PutAddr
  <1>2. /\ mem_addr' = Cell
        /\ UNCHANGED <<mem_wdata, run, halt, strobe, busy, was_read, latched, rf_addr, RestOfTarget>>
    BY <1>1, Writes, OthersWritten
  <1>3. Then(pc') /\ pc' \in WordCall /\ pc \in WordCall
        /\ pc' = IF Writing THEN "data" ELSE "ask"
    BY <1>1 DEF Then, WordCall
  <1>4. Writing' = Writing /\ Cell' = Cell /\ Value' = Value
    BY <1>3 DEF Then, Writing, Cell, Value, Program
  <1>5. Engine'
    BY <1>1, <1>2, <1>3, <1>4 DEF Sound, Engine, RestOfTarget, crossbarVars
  <1>6. Words' /\ mem' = mem /\ UNCHANGED cpuVars
    BY <1>2 DEF Sound, Words, RestOfTarget, crossbarVars
  <1>7. ~run'
    BY <1>2, <1>3 DEF Sound, Halting, HaltSeen, Held
  <1> QED
    BY <1>1, <1>3, <1>5, <1>6, <1>7, WordStep

LEMMA PutDataSound == ASSUME Sound, PutData PROVE Sound'
  <1>1. pc = "data" /\ Returns /\ Carry /\ since # 0 /\ Then("ask")
    BY CallFacts DEF PutData
  <1>2. /\ mem_wdata' = Value
        /\ UNCHANGED <<mem_addr, run, halt, strobe, busy, was_read, latched, rf_addr, RestOfTarget>>
    BY <1>1, Writes, OthersWritten
  <1>3. Then(pc') /\ pc' \in WordCall /\ pc \in WordCall /\ pc' = "ask"
    BY <1>1 DEF Then, WordCall
  <1>4. Writing' = Writing /\ Cell' = Cell /\ Value' = Value
    BY <1>3 DEF Then, Writing, Cell, Value, Program
  <1>5. Engine'
    BY <1>1, <1>2, <1>3, <1>4 DEF Sound, Engine, RestOfTarget, crossbarVars
  <1>6. Words' /\ mem' = mem /\ UNCHANGED cpuVars
    <2>1. Value \in Int
      BY <1>3, CellHolds DEF Sound
    <2> QED
      BY <1>2, <2>1 DEF Sound, Words, RestOfTarget, crossbarVars
  <1>7. ~run'
    BY <1>2, <1>3 DEF Sound, Halting, HaltSeen, Held
  <1> QED
    BY <1>1, <1>3, <1>5, <1>6, <1>7, WordStep

LEMMA AskSound == ASSUME Sound, Ask PROVE Sound'
  <1> DEFINE ask == IF Writing THEN "write" ELSE "read"
             v == Ctrl(FALSE, TRUE, ask)
  <1>1. pc = "ask" /\ Returns /\ Carry /\ since # 0 /\ Then("idle") /\ WriteCtrl(v)
    BY CallFacts, Writes, CtrlWritten DEF Ask
  <1>2. v.run = FALSE /\ v.ask = ask /\ ask # "none"
    BY DEF Ctrl
  <1>3. /\ ~run' /\ strobe' = ask /\ busy'
        /\ latched' = [addr |-> mem_addr,
                       data |-> IF ask = "write" THEN mem_wdata ELSE latched.data]
        /\ UNCHANGED <<mem_addr, mem_wdata, crossbarVars, cpuVars>>
    <2> HIDE DEF v, ask
    <2> QED
      BY <1>1, <1>2 DEF WriteCtrl
  <1>4. Then(pc') /\ pc' \in WordCall /\ pc \in WordCall /\ pc' = "idle"
    BY <1>1 DEF Then, WordCall
  <1>5. Writing' = Writing /\ Cell' = Cell /\ Value' = Value
    BY <1>4 DEF Then, Writing, Cell, Value, Program
  <1>6. /\ dbg_state = "IDLE" /\ mem_addr = Cell /\ (Writing => mem_wdata = Value)
    BY <1>1 DEF Sound, Engine
  <1>7. Asked'
    BY <1>3, <1>5, <1>6 DEF Asked, crossbarVars
  <1>8. Engine'
    BY <1>4, <1>7 DEF Engine
  <1>9. Words' /\ mem' = mem
    BY <1>3 DEF Sound, Words, crossbarVars
  <1> QED
    BY <1>1, <1>3, <1>4, <1>8, <1>9, WordStep

(* HALT and RUN written without a memory request.                            *)
LEMMA LevelsWritten ==
    ASSUME NEW r, NEW h, WriteCtrl(Ctrl(r, h, "none"))
    PROVE  /\ run' = r /\ halt' = h
           /\ UNCHANGED <<mem_addr, mem_wdata, strobe, busy, latched, rf_addr, crossbarVars, cpuVars>>
  <1>1. /\ Ctrl(r, h, "none").run = r /\ Ctrl(r, h, "none").halt = h
        /\ Ctrl(r, h, "none").ask = "none"
    BY DEF Ctrl
  <1> QED
    BY <1>1 DEF WriteCtrl

LEMMA HaltWriteSound == ASSUME Sound, HaltWrite PROVE Sound'
  <1>1. pc = "halt" /\ Returns /\ To("halting") /\ WriteCtrl(Ctrl(FALSE, TRUE, "none"))
    BY CallFacts, Writes, CtrlWritten DEF HaltWrite
  <1>2. /\ ~run'
        /\ UNCHANGED <<mem_addr, mem_wdata, strobe, busy, latched, rf_addr, crossbarVars, cpuVars>>
    BY <1>1, LevelsWritten
  <1>3. /\ pc' = "halting" /\ i' = 1 /\ UNCHANGED <<script, args, back, test, ok, dumped, code>>
    BY <1>1 DEF To
  <1>4. code # 0 /\ dbg_state = "IDLE" /\ ~busy /\ strobe = "none" /\ code = NoCode
    BY <1>1, EngineFree, CallFacts
  <1>5. Place'
    BY <1>1, <1>3, <1>4 DEF Sound, Place, WordCall
  <1>6. Counters'
    BY <1>1, <1>3, CallFacts, StaysInRange DEF Counters, WordCall
  <1>7. Words'
    BY <1>2 DEF Sound, Words, crossbarVars
  <1>8. ~HaltSeen'
    BY <1>3, <1>4 DEF HaltSeen, WordCall
  <1>9. Halting' /\ Line'
    BY <1>1, <1>2, <1>3, <1>8, CallFacts DEF Halting, Line
  <1>10. Engine' /\ Program_In' /\ OwnBreak'
    BY <1>2, <1>3, <1>4 DEF Engine, Program_In, OwnBreak, WordCall, crossbarVars
  <1>11. Dumped'
    BY <1>1, <1>3, <1>4 DEF Sound, Dumped
  <1> QED
    BY <1>5, <1>6, <1>7, <1>9, <1>10, <1>11 DEF Sound

LEMMA RunSound == ASSUME Sound, Run PROVE Sound'
  <1>1. /\ pc = "run" /\ Returns /\ To(IF script = "computation" THEN "break" ELSE "sleep")
        /\ WriteCtrl(Ctrl(TRUE, FALSE, "none"))
    BY CallFacts, Writes, CtrlWritten DEF Run
  <1>2. /\ run'
        /\ UNCHANGED <<mem_addr, mem_wdata, strobe, busy, latched, rf_addr, crossbarVars, cpuVars>>
    <2>1. /\ run' = TRUE
          /\ UNCHANGED <<mem_addr, mem_wdata, strobe, busy, latched, rf_addr, crossbarVars, cpuVars>>
      BY <1>1, LevelsWritten, Zenon
    <2> QED
      BY <2>1, Zenon
  <1>3. /\ pc' = IF script = "computation" THEN "break" ELSE "sleep"
        /\ i' = 1 /\ UNCHANGED <<script, args, back, test, ok, dumped, code>>
    BY <1>1 DEF To
  <1>4. code # 0 /\ dbg_state = "IDLE" /\ ~busy /\ strobe = "none" /\ code = NoCode
    BY <1>1, EngineFree, CallFacts
  <1>5. Place'
    BY <1>1, <1>3, <1>4, HaltAsked DEF Sound, Place, WordCall, Blinkers
  <1>6. Counters'
    BY <1>1, <1>3, CallFacts, StaysInRange DEF Counters, WordCall
  <1>7. Words'
    BY <1>2 DEF Sound, Words, crossbarVars
  <1>8. ~HaltSeen'
    BY <1>3, <1>4 DEF HaltSeen, WordCall
  <1>9. HaltSeen
    BY <1>1 DEF HaltSeen
  <1>10. Halting' /\ Line'
    BY <1>1, <1>3, <1>8, <1>9, QuietCall DEF Halting, Line
  <1>11. Engine'
    BY <1>2, <1>3, <1>4 DEF Engine, crossbarVars
  <1>12. Program_In'
    BY <1>1, <1>2, <1>3 DEF Sound, Program_In, WordCall, crossbarVars, Loaded, Program
  <1>13. OwnBreak'
    BY <1>1, <1>2, <1>9, CallFacts DEF Sound, Halting, Held, OwnBreak, cpuVars
  <1>14. Dumped'
    BY <1>1, <1>3, <1>4 DEF Sound, Dumped
  <1> QED
    BY <1>5, <1>6, <1>7, <1>10, <1>11, <1>12, <1>13, <1>14 DEF Sound

LEMMA WaitBreakSound == ASSUME Sound, WaitBreak PROVE Sound'
  <1>1. /\ pc = "break" /\ Returns /\ UNCHANGED targetVars /\ script = "computation"
        /\ UNCHANGED scriptVars \/ To("done")
    BY CallFacts DEF WaitBreak, Sound, Place
  <1>2. CASE UNCHANGED scriptVars
    BY <1>1, <1>2, Waits
  <1>3. CASE To("done")
    BY <1>1, <1>3, CallFacts, GoesEasy, StaysInRange DEF To, Easy
  <1> QED
    BY <1>1, <1>2, <1>3
------------------------------------------------------------------------------
(* The registers of the core.                                                *)

LEMMA PutRegSound == ASSUME Sound, PutReg PROVE Sound'
  <1>1. pc = "rf_addr" /\ Returns /\ Then("rf_data") /\ Carry
    BY CallFacts DEF PutReg
  <1>2. /\ rf_addr' = i - 1
        /\ UNCHANGED <<mem_addr, mem_wdata, run, halt, strobe, busy, was_read, latched, RestOfTarget>>
    BY <1>1, Writes, OthersWritten
  <1>3. pc' = "rf_data" /\ UNCHANGED <<script, args, back, i, test, ok, dumped, code>>
    BY <1>1 DEF Then
  <1>4. code # 0 /\ dbg_state = "IDLE" /\ ~busy /\ strobe = "none" /\ code = NoCode
    BY <1>1, EngineFree, CallFacts
  <1>5. Place'
    BY <1>1, <1>3, <1>4 DEF Sound, Place, WordCall
  <1>6. Counters'
    BY <1>1, <1>3, CallFacts, StaysInRange DEF Sound, Counters, WordCall
  <1>7. Words' /\ (Held => Held')
    BY <1>2 DEF Sound, Words, RestOfTarget, crossbarVars, cpuVars, Held, cpu_halted
  <1>8. HaltSeen' => HaltSeen
    BY <1>1, <1>3 DEF HaltSeen, WordCall
  <1>9. Halting' /\ Line'
    BY <1>1, <1>3, <1>7, <1>8, QuietCall, CallFacts DEF Sound, Halting, Line
  <1>10. Engine' /\ Program_In' /\ OwnBreak'
    BY <1>2, <1>3, <1>4 DEF Engine, Program_In, OwnBreak, WordCall, RestOfTarget, crossbarVars
  <1>11. Dumped'
    <2>1. owner' = owner
      BY <1>2 DEF RestOfTarget, cpuVars
    <2>2. \A k : RegValue(k)' = RegValue(k)
      BY <2>1 DEF RegValue
    <2>3. since' = 0
      BY <1>1, CallFacts
    <2>4. script = "computation" => dumped = <<>>
      BY DEF Sound, Dumped
    <2>5. /\ Len(dumped) <= NumRegs
          /\ script # "computation" => dumped = [k \in 1..(i - 1) |-> dumped[k]]
      BY <1>1 DEF Sound, Dumped
    <2>6. script = "regfile_dump" /\ args.halt => dumped = [k \in 1..(i - 1) |-> RegValue(k - 1)']
      BY <1>1, <2>2 DEF Sound, Dumped
    <2> QED
      BY <1>2, <1>3, <1>4, <2>3, <2>4, <2>5, <2>6 DEF Dumped
  <1> QED
    BY <1>5, <1>6, <1>7, <1>9, <1>10, <1>11 DEF Sound

(* One more value.                                                           *)
LEMMA LongerDump ==
    ASSUME NEW n \in Nat \ {0}, NEW s, NEW v, s = [k \in 1..(n - 1) |-> s[k]]
    PROVE  /\ Append(s, v) = [k \in 1..n |-> Append(s, v)[k]] /\ Len(Append(s, v)) = n
           /\ \A f : s = [k \in 1..(n - 1) |-> f[k]] /\ v = f[n] =>
                Append(s, v) = [k \in 1..n |-> f[k]]
  <1>1. Len(s) = n - 1
    OBVIOUS
  <1>2. Append(s, v) = [k \in 1..n |-> IF k = n THEN v ELSE s[k]]
    BY <1>1
  <1>3. Len(Append(s, v)) = n
    BY <1>2
  <1>4. Append(s, v) = [k \in 1..n |-> Append(s, v)[k]]
    BY <1>2
  <1>5. ASSUME NEW f, s = [k \in 1..(n - 1) |-> f[k]], v = f[n]
        PROVE  Append(s, v) = [k \in 1..n |-> f[k]]
    <2>1. \A k \in 1..n : k # n => s[k] = f[k]
      BY <1>5
    <2> QED
      BY <1>2, <1>5, <2>1
  <1> QED
    BY <1>3, <1>4, <1>5

LEMMA GetRegSound == ASSUME Sound, GetReg PROVE Sound'
  <1>1. /\ pc = "rf_data" /\ Returns /\ UNCHANGED targetVars /\ since' = 0 /\ since # 0
        /\ faults' = faults /\ since' \in 0..CallGap /\ faults' \in 0..MaxFaults
        /\ unread' = <<>> \/ unread' = <<Head(unread')>>
    BY CallFacts DEF GetReg
  <1>2. CASE script = "computation"
    <2>1. NextTest(RanTo(Program, seen'))
      BY <1>2 DEF GetReg
    <2> QED
      BY <1>1, <1>2, <2>1, NextTestSound
  <1>3. CASE script # "computation"
    <2>1. /\ dumped' = Append(dumped, seen')
          /\ IF i < NumRegs THEN pc' = "rf_addr" /\ i' = i + 1 /\ UNCHANGED code
                            ELSE pc' = "closed" /\ code' = 0 /\ UNCHANGED i
          /\ UNCHANGED <<script, args, back, test, ok>>
      BY <1>3 DEF GetReg, Exit
    <2>2. /\ code # 0 /\ dbg_state = "IDLE" /\ ~busy /\ strobe = "none" /\ code = NoCode
          /\ i \in Nat \ {0} /\ i <= NumRegs /\ NumRegs \in Nat \ {0}
          /\ dumped = [k \in 1..(i - 1) |-> dumped[k]]
      BY <1>1, <1>3, EngineFree, StaysInRange, CallGapIs DEF Sound, Counters, Dumped
    <2>3. /\ dumped' = [k \in 1..i |-> dumped'[k]] /\ Len(dumped') = i
      BY <2>1, <2>2, LongerDump
    <2>4. ASSUME script = "regfile_dump", args.halt
          PROVE  dumped' = [k \in 1..i |-> RegValue(k - 1)]
      <3>1. /\ dumped = [k \in 1..(i - 1) |-> RegValue(k - 1)] /\ rf_data = RegValue(i - 1)
        BY <1>1, <2>4 DEF Sound, Dumped
      <3>2. seen' = RegValue(i - 1)
        <4>1. HaltSeen
          BY <1>1, <2>4 DEF HaltSeen
        <4>2. seen' = ReadRegister("RF_DATA")
          BY <1>1, <4>1, QuietCall, Requests
        <4> QED
          BY <3>1, <4>2 DEF ReadRegister
      <3> DEFINE f == [k \in Nat |-> RegValue(k - 1)]
      <3>3. \A k \in 1..i : f[k] = RegValue(k - 1)
        BY <2>2
      <3>4. dumped = [k \in 1..(i - 1) |-> f[k]] /\ seen' = f[i]
        BY <2>2, <3>1, <3>2, <3>3
      <3>5. dumped' = [k \in 1..i |-> f[k]]
        <4> HIDE DEF f
        <4> QED
          BY <2>1, <2>2, <3>4, LongerDump
      <3> QED
        BY <3>3, <3>5
    <2>5. /\ Words' /\ (Held => Held') /\ (owner' = owner)
      BY <1>1 DEF Sound, Words, targetVars, blockVars, crossbarVars, cpuVars, Held, cpu_halted
    <2>6. \A k : RegValue(k)' = RegValue(k)
      BY <2>5 DEF RegValue
    <2>7. CASE i < NumRegs
      <3>1. pc' = "rf_addr" /\ i' = i + 1 /\ code' = code
        BY <2>1, <2>7
      <3>2. Place'
        BY <2>1, <2>2, <3>1 DEF Sound, Place, WordCall
      <3>3. Counters'
        <4>1. i + 1 \in Nat \ {0} /\ i + 1 <= NumRegs
          BY <2>2, <2>7
        <4> QED
          BY <1>1, <2>1, <3>1, <4>1, StaysInRange DEF Counters, WordCall
      <3>4. HaltSeen' => HaltSeen
        BY <1>1, <2>1, <2>2, <3>1 DEF HaltSeen, WordCall
      <3>5. Halting' /\ Line'
        BY <1>1, <2>5, <3>1, <3>4, QuietCall DEF Sound, Halting, Line
      <3>6. Engine' /\ Program_In' /\ OwnBreak'
        BY <1>1, <2>2, <3>1
           DEF Engine, Program_In, OwnBreak, WordCall, targetVars, blockVars, crossbarVars
      <3>7. Dumped'
        <4>1. i' - 1 = i
          BY <2>2, <3>1
        <4> QED
          BY <1>3, <2>1, <2>2, <2>3, <2>4, <2>6, <3>1, <4>1 DEF Dumped
      <3> QED
        BY <2>5, <3>2, <3>3, <3>5, <3>6, <3>7 DEF Sound
    <2>8. CASE ~(i < NumRegs)
      <3>1. pc' = "closed" /\ code' = 0 /\ i' = i /\ i = NumRegs
        BY <2>1, <2>2, <2>8
      <3>2. Place'
        BY <2>1, <3>1 DEF Sound, Place, WordCall, NoCode
      <3>3. Counters'
        BY <1>1, <2>1, <3>1, StaysInRange DEF Counters, WordCall
      <3>4. HaltSeen' => HaltSeen
        BY <1>1, <2>1, <2>2, <3>1 DEF HaltSeen, WordCall
      <3>5. Halting' /\ Line'
        BY <1>1, <2>5, <3>1, <3>4 DEF Sound, Halting, Line
      <3>6. Engine' /\ Program_In' /\ OwnBreak'
        BY <3>1 DEF Engine, Program_In, OwnBreak, WordCall
      <3>7. Dumped'
        BY <1>3, <2>1, <2>2, <2>3, <2>4, <2>6, <3>1 DEF Dumped
      <3> QED
        BY <2>5, <3>2, <3>3, <3>5, <3>6, <3>7 DEF Sound
    <2> QED
      BY <2>7, <2>8
  <1> QED
    BY <1>2, <1>3
------------------------------------------------------------------------------
(* Calls that fail, and Ctrl-C.                                              *)

LEMMA CarryWords ==
    ASSUME Sound, Carry, Calling
    PROVE  Words'
  <1>1. \/ pc \in {"version", "revision", "final", "perf", "halting", "status", "idle",
                   "break", "done", "fetch", "rf_data", "poll"}
        \/ pc \in {"halt", "run", "ask", "addr", "data", "rf_addr"}
    BY DEF Sound, Place, Calling
  <1>2. CASE pc \in {"version", "revision", "final", "perf", "halting", "status", "idle",
                     "break", "done", "fetch", "rf_data", "poll"}
    BY <1>2, ReadsOnly, StaysInRange
  <1>3. CASE pc \in {"halt", "run", "ask"}
    <2>1. PICK v : WriteCtrl(v)
      BY <1>3, Writes, CtrlWritten
    <2>2. mem' = mem /\ mem_wdata' = mem_wdata
      BY <2>1 DEF WriteCtrl, crossbarVars
    <2>3. latched' = latched
          \/ \E d \in {latched.data, mem_wdata} : latched' = [addr |-> mem_addr, data |-> d]
      BY <2>1 DEF WriteCtrl
    <2> QED
      BY <2>2, <2>3 DEF Sound, Words
  <1>4. CASE pc \in {"addr", "rf_addr"}
    <2>1. mem' = mem /\ mem_wdata' = mem_wdata /\ latched' = latched
      BY <1>4, Writes, OthersWritten DEF RestOfTarget, crossbarVars
    <2> QED
      BY <2>1 DEF Sound, Words
  <1>5. CASE pc = "data"
    <2>1. mem' = mem /\ mem_wdata' = Value /\ latched' = latched
      BY <1>5, Writes, OthersWritten DEF RestOfTarget, crossbarVars
    <2>2. Value \in Int
      BY <1>5, CellHolds DEF Sound, WordCall
    <2> QED
      BY <2>1, <2>2 DEF Sound, Words
  <1> QED
    BY <1>1, <1>2, <1>3, <1>4, <1>5

LEMMA FaultCounts == ASSUME Sound, Fault PROVE faults' \in 0..MaxFaults
  BY CallGapIs DEF Sound, Counters, Fault

LEMMA RaisesSound == ASSUME Sound, Raises PROVE Sound'
  <1>1. /\ Calling /\ since' = 0 /\ (Carry \/ UNCHANGED targetVars)
        /\ faults' = faults \/ Fault
        /\ pc' = "closed" /\ code' = 1
        /\ UNCHANGED <<script, args, back, i, test, ok, seen, dumped>>
    BY DEF Raises, Sends, Exit
  <1>2. Words' /\ since' \in 0..CallGap /\ faults' \in 0..MaxFaults
    BY <1>1, CarryWords, FaultCounts, StaysInRange, CallGapIs
  <1> QED
    BY <1>1, <1>2, Closes, StaysInRange

LEMMA InterruptedSound == ASSUME Sound, Interrupted PROVE Sound'
  <1>1. /\ Fault /\ (Calling \/ pc = "sleep")
        /\ UNCHANGED <<script, args, i, test, ok, seen, dumped>>
        /\ IF pc \in {"sleep", "poll"} THEN pc' = "halt" /\ back' = "stop" /\ code' = code
           ELSE pc' = "closed" /\ code' = 1
    BY DEF Interrupted, Exit
  <1>2. \/ UNCHANGED <<targetVars, unread, since>>
        \/ /\ Calling /\ Carry /\ since' = 0
           /\ \E a : unread' = Append(unread, a)
    <2>1. \/ UNCHANGED <<targetVars, unread, since>>
          \/ /\ Sends /\ Carry
             /\ unread' \in {Answers, Append(unread, [Answer(Request) EXCEPT !.kind = "fragment"])}
      BY DEF Interrupted
    <2> QED
      BY <2>1, Zenon DEF Sends, Answers
  <1>3. Words' /\ since' \in 0..CallGap /\ faults' \in 0..MaxFaults
    BY <1>1, <1>2, CarryWords, FaultCounts, StaysInRange, CallGapIs
  <1>4. CASE pc \notin {"sleep", "poll"}
    BY <1>1, <1>3, <1>4, Closes, StaysInRange
  <1>5. CASE pc \in {"sleep", "poll"}
    <2>1. unread = <<>> /\ script \in Blinkers
      BY <1>5 DEF Sound, Line, Place
    <2>2. UNCHANGED targetVars
      BY <1>2, <1>5, ReadsOnly DEF Calling
    <2>3. unread' = <<>> \/ \E a : unread' = <<a>>
      BY <1>2, <2>1, ShortLines
    <2>4. unread' = <<>> \/ unread' = <<Head(unread')>>
      BY <2>3, ShortLines
    <2> QED
      BY <1>1, <1>2, <1>3, <1>5, <2>1, <2>2, <2>4, GoesEasy, StaysInRange DEF Easy
  <1> QED
    BY <1>4, <1>5

------------------------------------------------------------------------------
(* The invariant.                                                            *)

LEMMA SoundAtFirst == Init => Sound
  <1> SUFFICES ASSUME Init PROVE Sound
    OBVIOUS
  <1>1. /\ script \in Scripts /\ args \in Options(script) /\ pc \in {"prepare", "open"}
        /\ back = "boot" /\ i = 1 /\ test = 1 /\ dumped = <<>>
        /\ unread \in Leftovers /\ since = CallGap /\ code = NoCode /\ faults = 0
    BY DEF Init
  <1>2. PICK running \in BOOLEAN : Found(OldMemory, running)
    BY DEF Init
  <1>3. /\ mem = OldMemory /\ mem_wdata = 0 /\ latched = [addr |-> 0, data |-> 0]
        /\ ~busy /\ strobe = "none" /\ dbg_state = "IDLE"
    BY <1>2 DEF Found
  <1>4. Place
    BY <1>1 DEF Place, WordCall
  <1>5. Counters
    BY <1>1, SessionAssumption DEF Counters, WordCall
  <1>6. Words
    BY <1>3, SessionAssumption DEF Words
  <1>7. ~HaltSeen
    BY <1>1 DEF HaltSeen, WordCall, NoCode
  <1>8. Halting
    BY <1>1, <1>7 DEF Halting
  <1>9. Line
    BY <1>1, <1>7, SessionAssumption DEF Line
  <1>10. Engine /\ Program_In /\ OwnBreak
    BY <1>1, <1>3 DEF Engine, Program_In, OwnBreak, WordCall
  <1>11. Dumped
    BY <1>1, CallGapIs DEF Dumped, NoCode
  <1> QED
    BY <1>4, <1>5, <1>6, <1>8, <1>9, <1>10, <1>11 DEF Sound

LEMMA SoundStep == Sound /\ [Next]_vars => Sound'
  <1> SUFFICES ASSUME Sound, [Next]_vars PROVE Sound'
    OBVIOUS
  <1>1. ASSUME Driven PROVE Sound'
    BY <1>1, VersionSound, RevisionSound, HaltWriteSound, HaltPollSound, StatusSound,
       PutAddrSound, PutDataSound, AskSound, WaitIdleSound, FetchSound, RunSound,
       BlinkSound, WaitBreakSound, DoneSound, PutRegSound, GetRegSound, FinalSound, Zenon
       DEF Driven
  <1>2. ASSUME Local PROVE Sound'
    BY <1>2, LocalSound, BlinkSound DEF Local
  <1>3. ASSUME Deadline PROVE Sound'
    <2>1. ASSUME IdleDeadline PROVE Sound'
      <3>1. End(1) /\ UNCHANGED <<lineVars, targetVars>>
        BY <2>1 DEF IdleDeadline
      <3> QED
        BY <3>1, Closes, StaysInRange DEF End, Exit, lineVars
    <2> QED
      BY <1>3, <2>1, HaltDeadlineSound, BreakDeadlineSound DEF Deadline
  <1>4. ASSUME Tick(TRUE) \/ Tick(FALSE) PROVE Sound'
    BY <1>4, TickSound
  <1>5. ASSUME UNCHANGED vars PROVE Sound'
    <2>1. UNCHANGED <<scriptVars, lineVars, targetVars>>
      BY <1>5 DEF vars
    <2>2. UNCHANGED <<script, args, pc, back, i, test, ok, dumped, code, seen, unread, since, faults,
                      mem_addr, mem_wdata, run, halt, strobe, busy, busy_q, was_read, latched,
                      rf_addr, mem, ram_q, dbg_state, dbg_read, rdata_buf, rdata, prev_run,
                      prev_halt, halted, boot_hold, restart, ebreak, ebreak_prev, halt_latch,
                      rf_data, owner>>
      BY <2>1 DEF scriptVars, lineVars, targetVars, blockVars, crossbarVars, cpuVars
    <2>3. /\ Program' = Program /\ Cell' = Cell /\ Value' = Value /\ Writing' = Writing
          /\ HaltSeen' = HaltSeen /\ (Held => Held')
      BY <2>1, <2>2, SameScript DEF Held, cpu_halted
    <2>4. Place' /\ Counters' /\ Words' /\ Halting' /\ Line'
      BY <2>2, <2>3 DEF Sound, Place, Counters, Words, Halting, Line
    <2>5. Engine'
      BY <2>2, <2>3 DEF Sound, Engine, Asked, Accessing, Answering, Answered, Stored
    <2>6. Program_In' /\ OwnBreak'
      BY <2>2, <2>3 DEF Sound, Program_In, Loaded, OwnBreak, Left
    <2>7. Dumped'
      <3>1. \A k : RegValue(k)' = RegValue(k)
        BY <2>2 DEF RegValue
      <3> QED
        BY <2>2, <3>1 DEF Sound, Dumped
    <2> QED
      BY <2>4, <2>5, <2>6, <2>7 DEF Sound
  <1> QED
    BY <1>1, <1>2, <1>3, <1>4, <1>5, RaisesSound, InterruptedSound, Zenon DEF Next
(* The invariant holds in every session: it says what the script may rely on *)
(* at each of its calls, of the CPU, the line, the memory engine, the memory *)
(* and the registers read.                                                   *)
THEOREM SessionIsSound == Spec => []Sound
  BY SoundAtFirst, SoundStep, PTL DEF Spec

(* Where the script is and what it holds: no counter leaves its list, every  *)
(* word access is about a word of the RAM, however many programs, words and  *)
(* registers there are.                                                      *)
THEOREM SessionTypes == Spec => []SessionTypeOK
  <1>1. Sound => SessionTypeOK
    <2> SUFFICES ASSUME Sound PROVE SessionTypeOK
      OBVIOUS
    <2>1. pc \in {"addr", "data", "ask", "idle", "fetch"} => Cell \in Cells
      BY CellHolds DEF Sound, WordCall
    <2>2. /\ (code = NoCode) = (pc # "closed") /\ code \in {NoCode, 0, 1}
          /\ Len(dumped) <= NumRegs /\ faults \in 0..MaxFaults /\ mem \in [Cells -> Int]
      BY DEF Sound, Place, Dumped, Counters, Words
    <2> QED
      BY <2>1, <2>2 DEF SessionTypeOK
  <1> QED
    BY <1>1, SessionIsSound, PTL

(* regfile_dump: a dump that ends well after a halt shows one state of the   *)
(* register file.                                                            *)
THEOREM DumpShowsOneState == Spec => []DumpIsRegisterFile
  <1>1. Sound => DumpIsRegisterFile
    BY DEF Sound, Dumped, DumpIsRegisterFile
  <1> QED
    BY <1>1, SessionIsSound, PTL

(* What a step does to the hardware: nothing, one write, or one clock.       *)
LEMMA StepKinds ==
    ASSUME [Next]_vars
    PROVE  UNCHANGED targetVars \/ (Carry /\ Calling) \/ (\E b \in BOOLEAN : Tick(b))
  <1>1. ASSUME Driven PROVE Carry /\ Calling
    <2>1. Returns
      BY <1>1, Zenon
         DEF Driven, Version, Revision, HaltWrite, HaltPoll, Status, PutAddr, PutData, Ask,
             WaitIdle, Fetch, Run, Poll, WaitBreak, Done, PutReg, GetReg, Perf, Final
    <2> QED
      BY <2>1 DEF Returns, Sends
  <1>2. ASSUME Local \/ Deadline PROVE UNCHANGED targetVars
    BY <1>2 DEF Local, Deadline, Prepare, Open, Sleep, HaltDeadline, IdleDeadline, BreakDeadline
  <1>3. ASSUME Raises \/ Interrupted PROVE UNCHANGED targetVars \/ (Carry /\ Calling)
    BY <1>3 DEF Raises, Interrupted, Sends
  <1>4. ASSUME Tick(TRUE) \/ Tick(FALSE) PROVE \E b \in BOOLEAN : Tick(b)
    BY <1>4
  <1>5. ASSUME UNCHANGED vars PROVE UNCHANGED targetVars
    BY <1>5 DEF vars
  <1> QED
    BY <1>1, <1>2, <1>3, <1>4, <1>5, Zenon DEF Next

(* RUN rises, and the engine is asked, at one call each.                     *)
LEMMA RunAndStrobe ==
    ASSUME Sound, [Next]_vars
    PROVE  /\ ~run /\ run' => pc = "run"
           /\ strobe' \notin {strobe, "none"} => pc = "ask"
  <1>1. CASE UNCHANGED targetVars
    BY <1>1 DEF targetVars, blockVars
  <1>2. CASE \E b \in BOOLEAN : Tick(b)
    BY <1>2 DEF Tick, Clock, MemoryEngine
  <1>3. CASE Carry /\ Calling
    <2>1. \/ pc \in {"version", "revision", "final", "perf", "halting", "status", "idle",
                     "break", "done", "fetch", "rf_data", "poll"}
          \/ pc \in {"halt", "run", "ask"} \/ pc \in {"addr", "data", "rf_addr"}
      BY <1>3 DEF Sound, Place, Calling
    <2>2. CASE pc \in {"version", "revision", "final", "perf", "halting", "status", "idle",
                       "break", "done", "fetch", "rf_data", "poll"}
      BY <1>1, <1>3, <2>2, ReadsOnly
    <2>3. CASE pc \in {"addr", "data", "rf_addr"}
      BY <1>3, <2>3, Writes, OthersWritten
    <2>4. CASE pc = "halt"
      BY <1>3, <2>4, Writes, CtrlWritten, LevelsWritten
    <2>5. CASE pc = "run"
      BY <1>3, <2>5, Writes, CtrlWritten, LevelsWritten
    <2>6. CASE pc = "ask"
      <3> DEFINE v == Ctrl(FALSE, TRUE, IF Writing THEN "write" ELSE "read")
      <3>1. WriteCtrl(v)
        BY <1>3, <2>6, Writes, CtrlWritten
      <3>2. v.run = FALSE
        BY DEF Ctrl
      <3>3. run' = v.run
        BY <3>1 DEF WriteCtrl
      <3> QED
        BY <2>6, <3>2, <3>3
    <2> QED
      BY <2>1, <2>2, <2>3, <2>4, <2>5, <2>6
  <1> QED
    BY <1>1, <1>2, <1>3, StepKinds

(* load_program, verify and run_cpu: the CPU is let go only with the whole   *)
(* program in memory, whatever was in memory, in the CPU and on the line     *)
(* before, and whichever calls fail.                                         *)
THEOREM ProgramsRunWhole == Spec => RunsWholeProgram
  <1>1. Sound /\ [Next]_vars => [~run /\ run' => Loaded(Program)]_vars
    BY RunAndStrobe DEF Sound, Program_In
  <1> QED
    BY <1>1, SessionIsSound, PTL DEF Spec, RunsWholeProgram

(* write_word and read_word: every request finds the CPU halted and the      *)
(* engine of Register_Block free, so none is overwritten.                    *)
THEOREM EngineIsFreeWhenAsked == Spec => RequestsFindEngineFree
  <1>1. Sound /\ [Next]_vars =>
          [strobe' \notin {strobe, "none"} => cpu_halted /\ ~busy]_vars
    <2> SUFFICES ASSUME Sound, [Next]_vars, strobe' \notin {strobe, "none"}
                 PROVE  cpu_halted /\ ~busy
      OBVIOUS
    <2>1. pc = "ask"
      BY RunAndStrobe
    <2> QED
      BY <2>1 DEF Sound, Halting, HaltSeen, WordCall, Held, Engine
  <1> QED
    BY <1>1, SessionIsSound, PTL DEF Spec, RequestsFindEngineFree

(* Who makes the step out of a waiting call.                                 *)
LEMMA WhoLeaves ==
    ASSUME [Next]_vars
    PROVE  /\ pc = "fetch" /\ pc' \notin {"fetch", "closed"} => Fetch
           /\ pc = "break" /\ pc' = "done" => WaitBreak
  <1>1. ASSUME Driven, pc \in {"fetch", "break"} PROVE Fetch \/ WaitBreak
    BY <1>1, Zenon
       DEF Driven, Version, Revision, HaltWrite, HaltPoll, Status, PutAddr, PutData, Ask,
           WaitIdle, Run, Poll, Done, PutReg, GetReg, Perf, Final
  <1>2. (Fetch => pc = "fetch") /\ (WaitBreak => pc = "break")
    BY DEF Fetch, WaitBreak
  <1>3. ASSUME Local \/ Deadline, pc \in {"fetch", "break"} PROVE pc = "break" /\ pc' # "done"
    BY <1>3 DEF Local, Deadline, Prepare, Open, Sleep, HaltDeadline, IdleDeadline, BreakDeadline,
                Enter
  <1>4. ASSUME Raises \/ Interrupted, pc \in {"fetch", "break"} PROVE pc' = "closed"
    BY <1>4 DEF Raises, Interrupted, Exit
  <1>5. ASSUME Tick(TRUE) \/ Tick(FALSE) \/ UNCHANGED vars PROVE pc' = pc
    BY <1>5 DEF Tick, vars, scriptVars
  <1> QED
    BY <1>1, <1>2, <1>3, <1>4, <1>5 DEF Next

(* read_word: the word a script takes is the one in memory, although BUSY    *)
(* falls a clock before it is in RDATA.                                      *)
THEOREM WordsReadAreTrue == Spec => WordsReadAreInMemory
  <1>1. Sound /\ [Next]_vars =>
          [pc = "fetch" /\ pc' \notin {"fetch", "closed"} => seen'.word = mem[Cell]]_vars
    <2> SUFFICES ASSUME Sound, [Next]_vars, pc = "fetch", pc' \notin {"fetch", "closed"}
                 PROVE  seen'.word = mem[Cell]
      OBVIOUS
    <2>1. Returns /\ since # 0
      BY WhoLeaves, CallFacts DEF Fetch
    <2>2. seen' = [word |-> rdata]
      BY <2>1, QuietCall, Requests DEF HaltSeen, WordCall, ReadRegister
    <2>3. Answered /\ ~Writing
      BY <2>1 DEF Sound, Engine, Answering
    <2> QED
      BY <2>2, <2>3 DEF Answered, Stored
  <1> QED
    BY <1>1, SessionIsSound, PTL DEF Spec, WordsReadAreInMemory

(* wait_for_ebreak: the break it reports is that of the program let go last, *)
(* whole and unchanged in memory when it stopped.                            *)
THEOREM BreaksAreOwn == Spec => BreakIsOwn
  <1>1. Sound /\ [Next]_vars =>
          [pc = "break" /\ pc' = "done" => RanTo(Program, RegValue(0))]_vars
    <2> SUFFICES ASSUME Sound, [Next]_vars, pc = "break", pc' = "done"
                 PROVE  RanTo(Program, RegValue(0))
      OBVIOUS
    <2>1. WaitBreak /\ Returns /\ since # 0
      BY WhoLeaves, CallFacts DEF WaitBreak
    <2>2. seen' = CtrlValue
      BY <2>1, QuietCall, Requests DEF ReadRegister
    <2>3. seen'.brk
      BY <2>1 DEF WaitBreak, scriptVars
    <2>4. ebreak
      BY <2>2, <2>3 DEF CtrlValue
    <2>5. owner = Left("break", mem) /\ Loaded(Program)
      BY <2>1, <2>4 DEF Sound, OwnBreak, Program_In
    <2> QED
      BY <2>5 DEF RanTo, RegValue, Left, Loaded
  <1> QED
    BY <1>1, SessionIsSound, PTL DEF Spec, BreakIsOwn
=============================================================================
