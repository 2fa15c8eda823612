SPECIFICATION TimerSpec
INVARIANT CallbackIsSet
