-------------------------- MODULE GeneratedDriver --------------------------
(***************************************************************************)
(* The RT-Thread drivers that src/tools/driver_adapt.py renders, run       *)
(* against their devices by one caller.  A register access is one step,    *)
(* and the devices move between any two.  The devices are external: START  *)
(* clears the NPU's status, CTRL_RESET stops it, and a START that finds a  *)
(* device at work is lost.  Registers hold Word values, so an address      *)
(* beyond them is truncated by the driver's cast.                          *)
(***************************************************************************)
EXTENDS Naturals, Sequences

CONSTANTS Word,          \* values of a 32-bit register
          Address,       \* what callers pass, wider than a register
          Alignment,     \* ADAM_DMA_ALIGNMENT
          TimeoutTicks,  \* ADAM_NPU_TIMEOUT_TICKS
          MaxCalls
ASSUME DriverAssumption ==
    /\ Word \in Nat \ {0} /\ Alignment \in Nat \ {0} /\ Word % Alignment = 0
    /\ Address \subseteq Nat /\ TimeoutTicks \in Nat /\ MaxCalls \in Nat

VARIABLES
    call,      \* the running call, or NoCall
    result,    \* ghost: the last call with its result, or NoCall
    npu,       \* [cmd, job, status, done]: job and done are call numbers, done a ghost
    dma,       \* [src, dst, len, job, last]: job is the transfer at work, or NoJob, and
               \* last, a ghost, the one started last
    uart,      \* [thr, sent]: the holding register (at most one) and the line
    given,     \* ghost: characters adam_uart_putc accepted
    calls

gdVars == <<call, result, npu, dma, uart, given, calls>>

NoCall == [fn |-> "none"]
NoJob == [src |-> Word, dst |-> Word, len |-> Word]
EINVAL == "einval"
ETIMEOUT == "etimeout"
ERROR == "error"

Ended(c, code) == [x \in DOMAIN c \cup {"code"} |-> IF x = "code" THEN code ELSE c[x]]
Return(code) ==
    /\ result' = Ended(call, code)
    /\ call' = NoCall
Call(c) ==
    /\ call = NoCall /\ calls < MaxCalls
    /\ calls' = calls + 1 /\ result' = NoCall
    /\ call' = c

\* adam_npu_reset: writing CTRL_RESET stops the device and clears STATUS.
AfterReset == [npu EXCEPT !.job = 0, !.status = "clear"]

NpuSubmit(a) ==
    /\ Call([fn |-> "npu", at |-> "cmd", command |-> a, ticks |-> TimeoutTicks])
    /\ UNCHANGED <<npu, dma, uart, given>>
NpuWriteCommand ==
    /\ call.fn = "npu" /\ call.at = "cmd"
    /\ npu' = [npu EXCEPT !.cmd = call.command % Word]
    /\ call' = [call EXCEPT !.at = "start"]
    /\ UNCHANGED <<result, dma, uart, given, calls>>
NpuStart ==
    /\ call.fn = "npu" /\ call.at = "start"
    /\ npu' = IF npu.job # 0 THEN npu ELSE [npu EXCEPT !.job = calls, !.status = "clear"]
    /\ call' = [call EXCEPT !.at = "wait"]
    /\ UNCHANGED <<result, dma, uart, given, calls>>
\* adam_npu_wait_done: one read of STATUS per tick.
NpuPoll ==
    /\ call.fn = "npu" /\ call.at = "wait" /\ call.ticks > 0
    /\ \/ npu.status = "error" /\ npu' = AfterReset /\ Return(ERROR)
       \/ npu.status = "done" /\ npu' = npu /\ Return("ok")
       \/ /\ npu.status = "clear" /\ npu' = npu
          /\ call' = [call EXCEPT !.ticks = @ - 1] /\ UNCHANGED result
    /\ UNCHANGED <<dma, uart, given, calls>>
NpuTimeout_NoReset ==
    /\ call.fn = "npu" /\ call.at = "wait" /\ call.ticks = 0
    /\ npu' = npu /\ Return(ETIMEOUT)
    /\ UNCHANGED <<dma, uart, given, calls>>
NpuTimeout ==
    /\ call.fn = "npu" /\ call.at = "wait" /\ call.ticks = 0
    /\ npu' = AfterReset /\ Return(ETIMEOUT)
    /\ UNCHANGED <<dma, uart, given, calls>>

NpuEnds == \* external
    /\ npu.job # 0
    /\ \/ npu' = [npu EXCEPT !.job = 0, !.status = "done", !.done = npu.job]
       \/ npu' = [npu EXCEPT !.job = 0, !.status = "error"]
       \/ npu' = [npu EXCEPT !.status = "error"]
    /\ UNCHANGED <<call, result, dma, uart, given, calls>>

Aligned(value) == value % Alignment = 0

DmaSubmit(src, dst, len) ==
    /\ Call([fn |-> "dma", at |-> "check", src |-> src, dst |-> dst, len |-> len,
              found |-> NoJob])
    /\ UNCHANGED <<npu, dma, uart, given>>
DmaCheck ==
    /\ call.fn = "dma" /\ call.at = "check"
    /\ IF \A value \in {call.src, call.dst, call.len} : Aligned(value)
       THEN call' = [call EXCEPT !.at = "src"] /\ UNCHANGED result
       ELSE Return(EINVAL)
    /\ UNCHANGED <<npu, dma, uart, given, calls>>
DmaWrite(register, next) ==
    /\ call.fn = "dma" /\ call.at = register
    /\ dma' = [dma EXCEPT ![register] = call[register] % Word]
    /\ call' = [call EXCEPT !.at = next]
    /\ UNCHANGED <<result, npu, uart, given, calls>>
\* The write of CTRL: nothing reads STATUS first, so a transfer at work swallows it.
DmaStart ==
    /\ call.fn = "dma" /\ call.at = "ctrl"
    /\ dma' = IF dma.job # NoJob THEN dma
              ELSE LET job == [src |-> dma.src, dst |-> dma.dst, len |-> dma.len]
                   IN [dma EXCEPT !.job = job, !.last = job]
    /\ result' = Ended([call EXCEPT !.found = dma.job], "ok")
    /\ call' = NoCall
    /\ UNCHANGED <<npu, uart, given, calls>>
DmaEnds == \* external
    /\ dma.job # NoJob
    /\ dma' = [dma EXCEPT !.job = NoJob]
    /\ UNCHANGED <<call, result, npu, uart, given, calls>>

UartPutc ==
    /\ Call([fn |-> "putc", at |-> "poll"])
    /\ UNCHANGED <<npu, dma, uart, given>>
\* The loop leaves when LSR shows THRE; the device only empties THR in between.
UartReady ==
    /\ call.fn = "putc" /\ call.at = "poll" /\ uart.thr = <<>>
    /\ call' = [call EXCEPT !.at = "write"]
    /\ UNCHANGED <<result, npu, dma, uart, given, calls>>
UartWrite ==
    /\ call.fn = "putc" /\ call.at = "write"
    /\ uart' = [uart EXCEPT !.thr = <<calls>>]
    /\ given' = Append(given, calls) /\ Return("ok")
    /\ UNCHANGED <<npu, dma, calls>>
UartShifts == \* external
    /\ uart.thr # <<>>
    /\ uart' = [thr |-> <<>>, sent |-> uart.sent \o uart.thr]
    /\ UNCHANGED <<call, result, npu, dma, given, calls>>

DriverInit ==
    /\ call = NoCall /\ result = NoCall /\ calls = 0
    /\ npu = [cmd |-> 0, job |-> 0, status |-> "clear", done |-> 0]
    /\ dma = [src |-> 0, dst |-> 0, len |-> 0, job |-> NoJob, last |-> NoJob]
    /\ uart = [thr |-> <<>>, sent |-> <<>>] /\ given = <<>>

DriverNext ==
    \/ \E a \in Address : NpuSubmit(a)
    \/ \E src, dst, len \in Address : DmaSubmit(src, dst, len)
    \/ UartPutc
    \/ NpuWriteCommand \/ NpuStart \/ NpuPoll \/ NpuTimeout \/ NpuEnds
    \/ DmaCheck \/ DmaWrite("src", "dst") \/ DmaWrite("dst", "len") \/ DmaWrite("len", "ctrl")
    \/ DmaStart \/ DmaEnds
    \/ UartReady \/ UartWrite \/ UartShifts

\* What the rendered drivers promise (KNOWN_MEMORY_RULES, driver_adapt.py): success of an
\* NPU command is the completion of that very command, and a failed one has left the device
\* stopped and clear, however the device and the deadline race; a DMA transfer that found
\* the device free moves what was asked, aligned, with no register of an older request in
\* it; and no accepted character is overwritten before it is on the line.
CallsAreAccounted ==
    /\ result.fn = "npu" =>
          IF result.code = "ok"
          THEN npu.done = calls /\ (result.command < Word => npu.cmd = result.command)
          ELSE npu.job = 0 /\ npu.status = "clear"
    /\ result.fn = "dma" /\ result.code = "ok" /\ result.found = NoJob =>
          \A register \in {"src", "dst", "len"} :
              dma.last[register] = result[register] % Word /\ Aligned(dma.last[register])
    /\ uart.sent \o uart.thr = given
=============================================================================
