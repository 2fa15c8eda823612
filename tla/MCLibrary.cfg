SPECIFICATION LibrarySpec
CONSTANTS MaxRequests = 3
          MaxChunks = 2
          Refusable <- Option
          Byte <- MCBytes
          String <- MCStrings
          Undefined = Undefined
          PageSize = 2
          MaxMemory = 6
          Texts <- MCTexts
          Tokens <- MCTokens
          Numbers <- MCNumbers
          StartTimes <- MCStartTimes
          Addresses <- MCAddresses
          Bits = 4
          SECOND = 2
          DAY = 5
          MaxAdded = 3
          HALF = 2
          BUF = 5
INVARIANTS OwnRequest TrueIsAnAnswer CancelStops
           SafeBlock RoundTrip
           TextIsKept AnswersMatch TimeIsSum
PROPERTY ViewsAreNotWritten
CHECK_DEADLOCK FALSE
