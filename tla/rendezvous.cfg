CONSTANTS CommSize = 2
          Loads <- MCLoads
          Queries <- MCQueries
          Digest <- MCDigest
          NodeKind <- MCNodeKind
SPECIFICATION Spec
INVARIANTS NothingLost AnsweredOnce
