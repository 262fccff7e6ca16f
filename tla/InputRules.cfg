CONSTANTS
  Messages <- SomeMessages
  Payloads <- SomePayloads
  Dresses <- SomeDresses
SPECIFICATION Spec
INVARIANTS DocumentedLinksWork OnePlatformPerLink DressIsIrrelevant AcceptedIsComplete
