SPECIFICATION TextSpec
CONSTANTS MaxEntries = 2
          MaxLexemes = 6
          LooseComments = TRUE
INVARIANT CommentsIgnored
CHECK_DEADLOCK FALSE
