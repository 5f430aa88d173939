CONSTANTS
  WORD_BITS = 4
  INT_BITS = 3
  Programs <- LoadingPrograms
  Files <- MCFiles
  Stdin <- MCStdin
  Dup <- sexp_dup
  Compute <- Computed
  Expand <- Expansion
SPECIFICATION Spec
INVARIANT ScopesAgree
