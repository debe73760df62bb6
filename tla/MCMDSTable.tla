----------------------------- MODULE MCMDSTable -----------------------------
EXTENDS MDSTable

\* Of the two ranks one may die
OneRank == {{0}, {1}}
============================================================================
