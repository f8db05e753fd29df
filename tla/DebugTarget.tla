----------------------------- MODULE DebugTarget -----------------------------
(***************************************************************************)
(* The hardware behind the CPU control registers, cycle by cycle: the      *)
(* memory engine of Register_Block, the debug port of the memory crossbar, *)
(* the edge detectors of the debug bridge, and the reset and EBREAK logic  *)
(* of the wrapper.  The core is external: it executes when nothing holds   *)
(* it, may reach an EBREAK, and leaves its results in the register file.   *)
(*                                                                         *)
(* Not here: breakpoints, single step and the soft reset, which no script  *)
(* uses; stores of the running program.                                    *)
(***************************************************************************)
EXTENDS Integers, Sequences

CONSTANTS Cells,            \* the words of block RAM the scripts touch
          RestartCycles,    \* reset pulse on RUN
          BreakCycles       \* and after an EBREAK

ASSUME RestartCycles \in Nat \ {0} /\ BreakCycles \in Nat \ {0}

VARIABLES mem_addr, mem_wdata, run, halt,               \* registers a host writes
          strobe, busy, busy_q, was_read, latched,      \* the memory engine
          mem, ram_q, dbg_state, dbg_read, rdata_buf, rdata,   \* crossbar
          prev_run, prev_halt, halted,                  \* debug bridge
          boot_hold, restart, ebreak, ebreak_prev, halt_latch, \* wrapper
          rf_addr, rf_data,                             \* register file access
          owner                                         \* whose results the register file holds

blockVars    == <<mem_addr, mem_wdata, run, halt, strobe, busy, busy_q, was_read, latched, rf_addr>>
crossbarVars == <<mem, ram_q, dbg_state, dbg_read, rdata_buf, rdata>>
cpuVars      == <<prev_run, prev_halt, halted, boot_hold, restart, ebreak, ebreak_prev,
                  halt_latch, rf_data, owner>>
targetVars   == <<blockVars, crossbarVars, cpuVars>>

cpu_halted == halted \/ ebreak
Executing  == ~boot_hold /\ restart = 0 /\ ~cpu_halted

(* Register values, as a host sees them.  INFO stands for the counters and  *)
(* version registers, whose values no script acts on.                       *)
CtrlValue == [busy |-> busy, halted |-> cpu_halted, brk |-> ebreak]
RegValue(i) == [index |-> i, left |-> owner]
InfoValue   == [info |-> TRUE]
Left(how, image) == [how |-> how, image |-> image]

(* A write of CPU_MEM_CTRL: RUN and HALT are levels; a read request goes    *)
(* before a write request, and either latches the address for the access.   *)
WriteCtrl(v) ==
    /\ run' = v.run /\ halt' = v.halt
    /\ IF v.ask = "none" THEN UNCHANGED <<strobe, busy, was_read, latched>>
       ELSE /\ strobe' = v.ask /\ busy' = TRUE /\ was_read' = (v.ask = "read")
            /\ latched' = [addr |-> mem_addr,
                           data |-> IF v.ask = "write" THEN mem_wdata ELSE latched.data]
    /\ UNCHANGED <<mem_addr, mem_wdata, busy_q, rf_addr, crossbarVars, cpuVars>>

WriteRegister(reg, v) ==
    \/ /\ reg = "CTRL" /\ WriteCtrl(v)
    \/ /\ reg = "ADDR" /\ mem_addr' = v
       /\ UNCHANGED <<mem_wdata, run, halt, strobe, busy, busy_q, was_read, latched, rf_addr,
                      crossbarVars, cpuVars>>
    \/ /\ reg = "WDATA" /\ mem_wdata' = v
       /\ UNCHANGED <<mem_addr, run, halt, strobe, busy, busy_q, was_read, latched, rf_addr,
                      crossbarVars, cpuVars>>
    \/ /\ reg = "RF_ADDR" /\ rf_addr' = v
       /\ UNCHANGED <<mem_addr, mem_wdata, run, halt, strobe, busy, busy_q, was_read, latched,
                      crossbarVars, cpuVars>>

ReadRegister(reg) == CASE reg = "CTRL" -> CtrlValue [] reg = "RDATA" -> [word |-> rdata]
                       [] reg = "RF_DATA" -> rf_data [] OTHER -> InfoValue
------------------------------------------------------------------------------
(* One clock.  The engine: a strobe lasts a cycle, BUSY a cycle longer.  The *)
(* branch that was to hold BUSY for a second cycle of a read never runs:     *)
(* busy_q is already up when it is reached.                                  *)
MemoryEngine ==
    /\ busy_q' = busy
    /\ busy' = (strobe # "none" \/ (busy /\ was_read /\ ~busy_q))
    /\ was_read' = IF strobe # "none" THEN strobe = "read" ELSE was_read
    /\ strobe' = IF busy THEN "none" ELSE strobe
    /\ UNCHANGED <<mem_addr, mem_wdata, run, halt, latched, rf_addr>>

(* The crossbar serves the debug port only while the CPU is halted, through  *)
(* port A of the RAM, and returns a word two cycles after it left the RAM.   *)
Access  == cpu_halted /\ strobe # "none"
AtCell  == IF busy THEN latched.addr ELSE mem_addr
Datum   == IF busy THEN latched.data ELSE mem_wdata

(* Mutant: the word is taken a cycle early, before the RAM has answered. *)
DebugPort_Early ==
    /\ mem' = IF Access /\ strobe = "write" THEN [mem EXCEPT ![AtCell] = Datum] ELSE mem
    /\ ram_q' = IF Access THEN mem[AtCell] ELSE ram_q
    /\ dbg_state' = CASE dbg_state = "IDLE" /\ Access -> "ACCESS" [] dbg_state = "ACCESS" -> "RESPOND"
                      [] OTHER -> "IDLE"
    /\ dbg_read' = IF dbg_state = "IDLE" /\ Access THEN strobe = "read" ELSE dbg_read
    /\ rdata_buf' = IF dbg_state = "IDLE" /\ Access THEN ram_q ELSE rdata_buf
    /\ rdata' = IF dbg_state = "RESPOND" /\ dbg_read THEN rdata_buf ELSE rdata

DebugPort ==
    /\ mem' = IF Access /\ strobe = "write" THEN [mem EXCEPT ![AtCell] = Datum] ELSE mem
    /\ ram_q' = IF Access THEN mem[AtCell] ELSE ram_q
    /\ dbg_state' = CASE dbg_state = "IDLE"   -> IF Access THEN "ACCESS" ELSE "IDLE"
                      [] dbg_state = "ACCESS" -> "RESPOND"
                      [] OTHER                -> "IDLE"
    /\ dbg_read' = IF dbg_state = "IDLE" /\ Access THEN strobe = "read" ELSE dbg_read
    /\ rdata_buf' = IF dbg_state = "ACCESS" /\ dbg_read THEN ram_q ELSE rdata_buf
    /\ rdata' = IF dbg_state = "RESPOND" /\ dbg_read THEN rdata_buf ELSE rdata

(* The bridge turns rising edges into commands, HALT before RESUME; the      *)
(* core's debug bus takes a control command at once.                         *)
combined_cpu_halt == halt \/ halt_latch
run_edge  == run /\ ~prev_run
halt_edge == combined_cpu_halt /\ ~prev_halt

(* Mutant: the HALT bit is not among the edges looked for. *)
DebugBridge_LatchOnly ==
    /\ prev_run' = run /\ prev_halt' = halt_latch
    /\ halted' = CASE halt_latch /\ ~prev_halt -> TRUE [] run_edge -> FALSE [] OTHER -> halted

DebugBridge ==
    /\ prev_run' = run /\ prev_halt' = combined_cpu_halt
    /\ halted' = CASE halt_edge -> TRUE [] ~halt_edge /\ run_edge -> FALSE [] OTHER -> halted

(* The wrapper: RUN releases the boot hold, restarts the core and clears a   *)
(* break; an EBREAK (breaks) is latched into a halt request.                 *)
(* Mutant: RUN does not clear the break of the program before. *)
Wrapper_KeepsBreak(breaks) ==
    /\ restart' = CASE run_edge -> RestartCycles [] ~run_edge /\ restart > 0 -> restart - 1 [] OTHER -> 0
    /\ boot_hold' = (boot_hold /\ ~run_edge) /\ ebreak' = (ebreak \/ breaks)
    /\ ebreak_prev' = ebreak /\ halt_latch' = (~run_edge /\ (halt_latch \/ (ebreak /\ ~ebreak_prev)))

Wrapper(breaks) ==
    /\ restart' = CASE run_edge -> IF ebreak THEN BreakCycles ELSE RestartCycles
                    [] ~run_edge /\ restart > 0 -> restart - 1
                    [] OTHER -> 0
    /\ boot_hold' = (boot_hold /\ ~run_edge)
    /\ ebreak' = (~run_edge /\ (ebreak \/ breaks))
    /\ ebreak_prev' = (~run_edge /\ ebreak)
    /\ halt_latch' = (~run_edge /\ (halt_latch \/ (ebreak /\ ~ebreak_prev)))

(* The core, external.  A program that runs disturbs the registers, one that *)
(* reached its EBREAK has left its results: they are named by what ran.      *)
Core(breaks) ==
    /\ breaks => Executing
    /\ owner' = CASE breaks -> Left("break", mem)
                  [] ~breaks /\ Executing -> Left("running", <<>>)
                  [] OTHER -> owner
    /\ rf_data' = RegValue(rf_addr)

Clock(breaks) == MemoryEngine /\ DebugPort /\ DebugBridge /\ Wrapper(breaks) /\ Core(breaks)

(* As a script finds it, m in memory: powered on, or still running the        *)
(* program an earlier script left there.                                     *)
Found(m, running) ==
    /\ mem_addr = 0 /\ mem_wdata = 0 /\ run = running /\ halt = FALSE
    /\ strobe = "none" /\ busy = FALSE /\ busy_q = FALSE /\ was_read = FALSE
    /\ latched = [addr |-> 0, data |-> 0]
    /\ mem = m /\ ram_q = 0 /\ dbg_state = "IDLE" /\ dbg_read = FALSE
    /\ rdata_buf = 0 /\ rdata = 0
    /\ prev_run = running /\ prev_halt = FALSE /\ halted = ~running
    /\ boot_hold = ~running /\ restart = 0
    /\ ebreak = FALSE /\ ebreak_prev = FALSE /\ halt_latch = FALSE
    /\ owner = Left(IF running THEN "running" ELSE "boot", <<>>)
    /\ rf_addr = 0 /\ rf_data = RegValue(0)
=============================================================================
