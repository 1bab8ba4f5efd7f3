----------------------------- MODULE InitStack ------------------------------
(***************************************************************************)
(* What init writes to the guest's stack.  The guest's stack is the host's *)
(* own: TRAPFRAME is word 0, above it lie the frames of the library's      *)
(* callers and, HostWords up, what the kernel put there for the process:   *)
(* argv and envp, from which init copies.  A word copied upwards may lie   *)
(* on one that is still to be read.                                        *)
(***************************************************************************)
EXTENDS Integers, SequencesExt

CONSTANTS
  HostWords,   (* words between TRAPFRAME and argv: the 64 of init_switch and *)
               (* the frames of runInstrument and its callers                 *)
  StackWords   (* words of the stack that are modelled                        *)

ASSUME StackAssumption == HostWords \in Nat \ {0} /\ StackWords \in Nat

HostWord == -1
NULL     == 0

(* The types of the auxiliary vector's entries (auxvec.h).                 *)
AT_EXECFN == 31
AuxTypes == <<16, 6, 17, 3, 4, 5, 7, 8, 9, 11, 12, 13, 14, 26, AT_EXECFN>>

(* The values do not matter here, that of AT_EXECFN excepted.              *)
AuxValue == -2

ArgvAt       == HostWords
EnvpAt(args) == HostWords + Len(args.argv) + 1

KernelWords(args) == args.argv \o <<NULL>> \o args.envp \o <<NULL>>

InitialStack(args) ==
  [n \in 0..(StackWords - 1) |->
     IF n \in HostWords..(HostWords + Len(KernelWords(args)) - 1)
     THEN KernelWords(args)[n - HostWords + 1] ELSE HostWord]

(* What is modelled holds the kernel's words, and of those written below   *)
(* all but the last 26, zeros that nobody reads.                           *)
StackHolds(args) ==
  /\ HostWords + Len(KernelWords(args)) <= StackWords
  /\ Len(args.argv) + Len(args.envp) + 37 <= StackWords

-----------------------------------------------------------------------------
(* The copy: the stack and stEnd, where the next word goes.                *)

Push(copy, w) ==
  [copy EXCEPT !.stack = [n \in DOMAIN copy.stack |->
                            IF n = copy.stEnd THEN w ELSE copy.stack[n]],
               !.stEnd = @ + 1]

PushAll(copy, words) == FoldLeft(Push, copy, words)

CopyArgv(args, copy) ==
  FoldLeft(LAMBDA c, i : Push(c, c.stack[ArgvAt + i - 1]),
           Push(copy, Len(args.argv)),
           [i \in 1..Len(args.argv) |-> i])

(* The environment is copied up to the first NULL it meets.                *)
CopyEnvp(args, copy) ==
  LET railEnvp(c, i) == c.stack[EnvpAt(args) + i]
  IN  FoldLeft(LAMBDA c, i : IF c.done \/ railEnvp(c, i) = NULL
                             THEN [c EXCEPT !.done = TRUE]
                             ELSE Push(c, railEnvp(c, i)),
               copy,
               [i \in 1..(StackWords - EnvpAt(args)) |-> i - 1])

Zeros(n) == [i \in 1..n |-> NULL]

CopyAuxv(copy) ==
  LET execfn == copy.stack[ArgvAt]
      value(type) == IF type = AT_EXECFN THEN execfn ELSE AuxValue
  IN  FoldLeft(LAMBDA c, type : Push(Push(c, type), value(type)), copy, AuxTypes)

(* Mutant: nothing ends the arguments.                                     *)
CopiedUnterminated(args, stack) ==
  LET argv == CopyArgv(args, [stack |-> stack, stEnd |-> 0, done |-> FALSE])
      envp == PushAll(CopyEnvp(args, argv), Zeros(5))
  IN  PushAll(CopyAuxv(envp), Zeros(26)).stack

(* One NULL ends the arguments, one with four zeros more the environment,  *)
(* AT_NULL with twenty-five zeros the auxiliary vector.                    *)
Copied(args, stack) ==
  LET argv == CopyArgv(args, [stack |-> stack, stEnd |-> 0, done |-> FALSE])
      envp == PushAll(CopyEnvp(args, Push(argv, NULL)), Zeros(5))
  IN  PushAll(CopyAuxv(envp), Zeros(26)).stack
=============================================================================
