------------------------------ MODULE Recording ------------------------------
(***************************************************************************)
(* How a GPU forward is written down.  The resident forwards of the image, *)
(* video and audio models record GPU work into a list and submit it in     *)
(* batches; which buffers a batch names, in which order, and what is kept  *)
(* across a submit, depends on the shapes alone.  A forward is therefore a *)
(* sequence of steps, and the operators of the forward modules, named for  *)
(* the functions they stand for, build it; ResidentForward runs it.        *)
(*                                                                         *)
(* A buffer is named by the variable that holds it, and its content is a   *)
(* set of elements, so that a tensor written by several dispatches is      *)
(* whole only when they cover it.  A weight is <<layer, tensor>>, where    *)
(* the layer is the prefix its source preloads.                            *)
(***************************************************************************)
EXTENDS Integers, Sequences, FiniteSetsExt, SequencesExt

(* pool.take: a buffer of n elements under the name `to`.                  *)
Take(to, n) == <<[op |-> "take", to |-> to, n |-> n]>>

(* The host writes `part` of `to`, before any of the recorded work runs.   *)
HostWrite(to, part) == <<[op |-> "host", to |-> to, part |-> part]>>

(* A buffer beside the pool that the object keeps and replaces to grow.     *)
Fix(to, n) == <<[op |-> "fix", to |-> to, n |-> n]>>

(* Record a dispatch or a copy that writes `part` of `to`.                 *)
Write(to, part, from, weights) ==
  <<[op |-> "write", to |-> to, part |-> part, from |-> from, weights |-> weights]>>

(* The same, starting a new content of n elements: what `to` held before   *)
(* is not read again, or is read by this very step.                        *)
Rewrite(to, n, part, from, weights) ==
  <<[op |-> "rewrite", to |-> to, n |-> n, part |-> part, from |-> from, weights |-> weights]>>

(* `const to = from`.                                                      *)
Name(to, from) == <<[op |-> "name", to |-> to, from |-> from]>>

(* The buffer is dead before the submit.                                   *)
Recycle(x) == <<[op |-> "recycle", x |-> x]>>

(* The weights whose names begin with p are about to be read.              *)
Announce(p) == <<[op |-> "announce", prefix |-> p]>>

(* Submit what is recorded, read `back`, and free every buffer not in keep. *)
Flush(keep, back) == <<[op |-> "flush", keep |-> keep, back |-> back]>>

(* One dispatch of a one-shot runner: submitted, and awaited, on its own.  *)
Await == <<[op |-> "await", back |-> {}]>>

(* Submit what is recorded and read the result.                            *)
Readback(back) == <<[op |-> "readback", back |-> back]>>

-----------------------------------------------------------------------------
Elements(n) == 0 .. n - 1

(* A buffer taken and written from the host.                               *)
Upload(to, n) == Take(to, n) \o HostWrite(to, Elements(n))

(* Mutant: the shorter last range is dropped.                              *)
Ranges_Floor(n, step) ==
  [i \in 1 .. n \div step |-> {e \in Elements(n) : e \div step = i - 1}]

(* The ranges `for (at = 0; at < n; at += step)` goes through.             *)
Ranges(n, step) ==
  [i \in 1 .. (n + step - 1) \div step |-> {e \in Elements(n) : e \div step = i - 1}]

(* Each element of s becomes the elements of a row of the given width.     *)
Wide(s, width) == UNION {{e * width + k : k \in Elements(width)} : e \in s}

(* The same ranges, each element of which is a row of the given width.      *)
RowRanges(n, step, width) ==
  LET parts == Ranges(n, step)
  IN [i \in DOMAIN parts |-> Wide(parts[i], width)]

(* A buffer taken and written whole by one dispatch.                       *)
Into(to, n, from, weights) ==
  <<[op |-> "into", to |-> to, n |-> n, from |-> from, weights |-> weights]>>

(* A buffer taken and written by one dispatch per range.                   *)
IntoParts(to, n, parts, from, weights) ==
  Take("out", n) \o
  FlattenSeq([i \in DOMAIN parts |-> Write("out", parts[i], from, weights)]) \o
  Name(to, "out")

(* An array made by one dispatch of a one-shot runner.                     *)
Run(to, n, from, weights) == Into(to, n, from, weights) \o Await

(* An array made by one such dispatch per range, the host putting the      *)
(* results together.                                                       *)
RunParts(to, n, parts, from, weights) ==
  Take("out", n) \o
  FlattenSeq([i \in DOMAIN parts |-> Write("out", parts[i], from, weights) \o Await]) \o
  Name(to, "out")

(* An array the host makes of others.                                      *)
OnHost(to, n, from) == Into(to, n, from, {})

(* 1 .. n cut into maximal runs; i joins the run of i - 1 if Joins(i).      *)
RunsOf(n, Joins(_)) ==
  FoldLeft(LAMBDA runs, i : IF i > 1 /\ Joins(i)
                              THEN [runs EXCEPT ![Len(runs)] = @ \cup {i}]
                              ELSE Append(runs, {i}),
           <<>>, [i \in 1 .. n |-> i])

(* x = consume(x, f(x)): `made`, written by f, replaces x.                 *)
Consume(x, f) == f \o Recycle(x) \o Name(x, "made")

(* The programs of a loop over 0 .. n - 1.                                 *)
Loop(n, body(_)) == FlattenSeq([i \in 1 .. n |-> body(i - 1)])
=============================================================================
