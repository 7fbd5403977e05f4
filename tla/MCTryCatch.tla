----------------------------- MODULE MCTryCatch -----------------------------
\* Six nested calls and scopes: enough for a try in a body in a handler in a function called
\* from a tried expression.
EXTENDS TryCatch
=============================================================================
