-------------------------------- MODULE Stdio --------------------------------
(***************************************************************************)
(* Standard input and output before and after their first use              *)
(* (libs/c/src/sys-okl4/sys_stdio.c over serial_init of libs/serial).  The *)
(* handlers of the three files start out as init_read and init_write,      *)
(* which set up the serial device and then replace all three handlers.     *)
(* When the cell has no serial segment, the driver's set-up prints an      *)
(* error, with printf, on the very stdout that is being set up: the calls  *)
(* nest, and "stack" holds the serial_init calls in progress.              *)
(***************************************************************************)
EXTENDS Naturals, Sequences

CONSTANTS Heap,    \* device structures the heap can supply
          Message  \* bound: characters of the driver's error message

VARIABLES serial_init_result, \* "uninitialised", "ok" or "failed"
          fn,      \* handler of each file: "init", "serial" or "null"
          stack,   \* the calls of serial_init in progress, innermost last
          heap,    \* device structures that can still be allocated
          segment, \* the environment has a MAIN_SERIAL_MEM0 segment
          served   \* history: the handler that served the last transfer

stdioVars == <<serial_init_result, fn, stack, heap, segment, served>>

Files == {"stdin", "stdout", "stderr"}

StdioInit ==
  /\ serial_init_result = "uninitialised"
  /\ fn = [f \in Files |-> "init"]
  /\ stack = <<>>
  /\ heap \in 0 .. Heap
  /\ segment \in BOOLEAN
  /\ served = "none"

Top == stack[Len(stack)]
Enter(by) == [at |-> "enter", left |-> Message, by |-> by]
Go(at) == stack' = [stack EXCEPT ![Len(stack)].at = at]
In(at) == stack # <<>> /\ Top.at = at

(* A transfer on a file: through its handler, or into init_read/init_write. *)
Transfer(f) ==
  /\ IF fn[f] = "init"
       THEN stack' = Append(stack, Enter("stdio")) /\ served' = served
       ELSE stack' = stack /\ served' = fn[f]
  /\ UNCHANGED <<serial_init_result, fn, heap, segment>>

(* A program that brings the device up itself, before its first output.    *)
CallInit ==
  /\ stack = <<>>
  /\ stack' = <<Enter("program")>>
  /\ UNCHANGED <<serial_init_result, fn, heap, segment, served>>

CallTransfer == stack = <<>> /\ \E f \in Files : Transfer(f)

(* serial_init of a device that has been set up, or that could not be.     *)
Again ==
  /\ In("enter") /\ serial_init_result # "uninitialised"
  /\ Go("return")
  /\ UNCHANGED <<serial_init_result, fn, heap, segment, served>>

(* resource_init, then the malloc of the device.                           *)
AllocDevice ==
  /\ In("enter") /\ serial_init_result = "uninitialised"
  /\ heap > 0
  /\ heap' = heap - 1
  /\ Go("setup")
  /\ UNCHANGED <<serial_init_result, fn, segment, served>>

AllocDeviceFails ==
  /\ In("enter") /\ serial_init_result = "uninitialised"
  /\ heap = 0
  /\ serial_init_result' = "failed"
  /\ Go("return")
  /\ UNCHANGED <<fn, heap, segment, served>>

(* device_setup with the memory resource, get_interface, enable.           *)
Setup ==
  /\ In("setup") /\ segment
  /\ serial_init_result' = "ok"
  /\ Go("return")
  /\ UNCHANGED <<fn, heap, segment, served>>

(* device_setup without it: "Invalid resource type", one character at a    *)
(* time through stdout.                                                    *)
SetupPrints ==
  /\ In("setup") /\ ~segment /\ Top.left > 0
  /\ LET here == [stack EXCEPT ![Len(stack)].left = @ - 1]
     IN IF fn["stdout"] = "init"
          THEN stack' = Append(here, Enter("stdio")) /\ served' = served
          ELSE stack' = here /\ served' = fn["stdout"]
  /\ UNCHANGED <<serial_init_result, fn, heap, segment>>

SetupFails ==
  /\ In("setup") /\ ~segment /\ Top.left = 0
  /\ serial_init_result' = "failed"
  /\ Go("return")
  /\ UNCHANGED <<fn, heap, segment, served>>

Handler == IF serial_init_result = "ok" THEN "serial" ELSE "null"

(* Seeded fault: only the file that was used gets its handler.             *)
SwitchOne ==
  /\ In("return") /\ Top.by = "stdio"
  /\ fn' = [fn EXCEPT !["stdout"] = Handler]
  /\ served' = Handler
  /\ stack' = SubSeq(stack, 1, Len(stack) - 1)
  /\ UNCHANGED <<serial_init_result, heap, segment>>

(* Seeded fault: the handlers are not replaced, and the transfer that      *)
(* follows finds the initial one again.                                    *)
SwitchForgets ==
  /\ In("return") /\ Top.by = "stdio"
  /\ Go("enter")
  /\ UNCHANGED <<serial_init_result, fn, heap, segment, served>>

(* serial_stdio_init or null_init, then the transfer through the handler.  *)
Switch ==
  /\ In("return") /\ Top.by = "stdio"
  /\ fn' = [f \in Files |-> Handler]
  /\ served' = Handler
  /\ stack' = SubSeq(stack, 1, Len(stack) - 1)
  /\ UNCHANGED <<serial_init_result, heap, segment>>

ReturnInit ==
  /\ In("return") /\ Top.by = "program"
  /\ stack' = SubSeq(stack, 1, Len(stack) - 1)
  /\ UNCHANGED <<serial_init_result, fn, heap, segment, served>>

Step == Again \/ AllocDevice \/ AllocDeviceFails \/ Setup \/ SetupPrints
          \/ SetupFails \/ Switch \/ ReturnInit

StdioNext == CallTransfer \/ CallInit \/ Step

StdioSpec == StdioInit /\ [][StdioNext]_stdioVars /\ WF_stdioVars(Step)

-----------------------------------------------------------------------------
StdioTypeOK ==
  /\ serial_init_result \in {"uninitialised", "ok", "failed"}
  /\ fn \in [Files -> {"init", "serial", "null"}]
  /\ stack \in Seq([at : {"enter", "setup", "return"}, left : 0 .. Message,
                   by : {"stdio", "program"}])
  /\ heap \in 0 .. Heap /\ segment \in BOOLEAN
  /\ served \in {"none", "serial", "null"}

(* Between two calls the three files have the same handler, and once it is *)
(* not the initial one it is the one the outcome of serial_init calls for, *)
(* however deep the set-up had nested; that is why init_write may serve    *)
(* stderr through the handler of stdout.                                   *)
HandlersFollowResult ==
  stack = <<>> =>
    \/ \A f \in Files : fn[f] = "init"
    \/ /\ serial_init_result # "uninitialised"
       /\ \A f \in Files : fn[f] = Handler

(* A transfer comes back even when the set-up prints on the file it sets   *)
(* up: each nested call takes a device structure off the heap, and the one *)
(* that finds none left installs the null handlers for all of them.        *)
TransferReturns == (stack # <<>>) ~> (stack = <<>>)
=============================================================================
