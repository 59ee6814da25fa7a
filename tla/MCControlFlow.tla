---------------------------- MODULE MCControlFlow ----------------------------
EXTENDS ControlFlow

MCAlphabet ==
    {I0("Ret")} \union {I1(op, j) : op \in {"Branch", "BrTrue"}, j \in 0 .. MaxCode - 1}
==============================================================================
