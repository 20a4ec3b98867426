SPECIFICATION Spec
CONSTANTS
  MaxVersion = 2
  UserIds = {"mail", "mail with a slash"}
INVARIANTS TypeOK PublishedEverywhere
PROPERTIES EventuallyPublished
