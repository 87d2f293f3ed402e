----------------------------- MODULE MCTerminal -----------------------------
EXTENDS TerminalLines

CONSTANT a

MCChars == {a}
MCPrompts == {<<NL, a>>}
=============================================================================
