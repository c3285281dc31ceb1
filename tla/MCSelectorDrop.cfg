\* Up to three spans, one of which Normalize drops.
CONSTANTS
  SelMax = 2
  SpanChoices <- MCSpans
  MaxSpans = 3
  URLChoices <- MCURLs
  MaxRevisions = 1
SPECIFICATION SelectorSpec
INVARIANT AdmitsAllAsked
CHECK_DEADLOCK FALSE
