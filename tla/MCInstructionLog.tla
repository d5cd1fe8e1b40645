--------------------------- MODULE MCInstructionLog ---------------------------
EXTENDS InstructionLog
=============================================================================
