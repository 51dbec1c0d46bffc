-------------------------------- MODULE MCVm --------------------------------
(* Instances of Vm: programs with one and two segments.                    *)
EXTENDS Vm

Seg(va, memsz, filesz, flags) == [va |-> va, memsz |-> memsz, filesz |-> filesz, flags |-> flags]

\* Text and a data segment that ends in bss; a second segment inside the first; a
\* file part that is longer than the segment.
Several == {<<Seg(0, 2, 2, {}), Seg(1, 3, 1, {"w"})>>, <<Seg(0, 3, 3, {}), Seg(0, 1, 1, {"w"})>>,
            <<Seg(0, 1, 2, {})>>}
=============================================================================
