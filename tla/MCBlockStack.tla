----------------------------- MODULE MCBlockStack -----------------------------
\* BlockStack with a stack of six blocks: a function with four blocks inside it.
EXTENDS BlockStack
=============================================================================
