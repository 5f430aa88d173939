CONSTANTS
  WORD_BITS = 4
  INT_BITS = 3
  Programs <- MCPrograms
  Files <- MCFiles
  Stdin <- MCStdin
  Dup <- sexp_dup
  Compute <- Computed
  Expand <- Expansion
SPECIFICATION Spec
INVARIANTS TypeOK ArenasOwned ArenasReturned ScopesAgree
